---- MODULE Spec2Model ----
(***************************************************************************)
(* FuelMetrics: ingestion of the ANP weekly spreadsheet                    *)
(* (ANPDownloader.load_data), cleaning (DataProcessor._clean_data) and the *)
(* serving layer's module-level processor (routes/today.get_processor)     *)
(* together with the scheduler's background job (tasks/scheduler).         *)
(*                                                                         *)
(* Text is modelled at character level: a Python str is a sequence of      *)
(* one-character strings.  An accented letter is written as its base       *)
(* letter followed by the mark ("A~" is A with tilde, "C," is C with       *)
(* cedilla, "E'" is E with acute, "O^" is O with circumflex), which is     *)
(* its NFKD decomposition.  Numbers are fixed point, in hundredths         *)
(* (5.10 is 510).                                                          *)
(***************************************************************************)
EXTENDS Integers, Sequences, FiniteSets, TLC

(***************************************************************************)
(* Python str operations                                                   *)
(***************************************************************************)
LowerLetters == <<"a","b","c","d","e","f","g","h","i","j","k","l","m",
                  "n","o","p","q","r","s","t","u","v","w","x","y","z">>
UpperLetters == <<"A","B","C","D","E","F","G","H","I","J","K","L","M",
                  "N","O","P","Q","R","S","T","U","V","W","X","Y","Z">>
Digits == <<"0","1","2","3","4","5","6","7","8","9">>

\* The accented letters of the alphabet, and the same letters without the mark.
AccentedUpper == <<"A~", "O~", "A'", "E'", "I'", "O'", "U'", "A^", "E^", "O^", "C,">>
AccentedLower == <<"a~", "o~", "a'", "e'", "i'", "o'", "u'", "a^", "e^", "o^", "c,">>
AccentedBase  == <<"A", "O", "A", "E", "I", "O", "U", "A", "E", "O", "C">>

Range(seq) == { seq[i] : i \in 1..Len(seq) }

IndexOf(seq, x) == IF \E i \in 1..Len(seq) : seq[i] = x
                   THEN CHOOSE i \in 1..Len(seq) : seq[i] = x
                   ELSE 0

\* str.upper() on one character, as a table
UpperOf ==
    [c \in Range(LowerLetters) \cup Range(AccentedLower) |->
        IF IndexOf(LowerLetters, c) # 0
        THEN UpperLetters[IndexOf(LowerLetters, c)]
        ELSE AccentedUpper[IndexOf(AccentedLower, c)]]

UpperChar(c) == IF c \in DOMAIN UpperOf THEN UpperOf[c] ELSE c

\* str.upper()
Upper(s) == [i \in 1..Len(s) |-> UpperChar(s[i])]

IsSpace(c) == c = " "

RECURSIVE LStrip(_)
LStrip(s) == IF s # <<>> /\ IsSpace(Head(s)) THEN LStrip(Tail(s)) ELSE s

RECURSIVE RStrip(_)
RStrip(s) == IF s # <<>> /\ IsSpace(s[Len(s)])
             THEN RStrip(SubSeq(s, 1, Len(s) - 1)) ELSE s

\* str.strip()
Strip(s) == RStrip(LStrip(s))

StartsWith(s, sub) == Len(sub) <= Len(s) /\ SubSeq(s, 1, Len(sub)) = sub

\* sub in s
Contains(s, sub) ==
    \E i \in 0..(Len(s) - Len(sub)) : SubSeq(s, i + 1, i + Len(sub)) = sub

\* str.replace(old, new): every non-overlapping occurrence, left to right
RECURSIVE Replace(_, _, _)
Replace(s, old, new) ==
    IF s = <<>> THEN <<>>
    ELSE IF StartsWith(s, old)
         THEN new \o Replace(SubSeq(s, Len(old) + 1, Len(s)), old, new)
         ELSE <<Head(s)>> \o Replace(Tail(s), old, new)

\* sep.join(parts)
RECURSIVE Join(_, _)
Join(parts, sep) ==
    IF parts = <<>> THEN <<>>
    ELSE IF Len(parts) = 1 THEN parts[1]
    ELSE parts[1] \o sep \o Join(Tail(parts), sep)

\* unicodedata.normalize('NFKD', text).encode('ASCII', 'ignore').decode('ASCII'):
\* an accented letter keeps its base letter, its combining mark is dropped
AsciiFold(s) ==
    [i \in 1..Len(s) |->
        IF IndexOf(AccentedUpper, s[i]) # 0 THEN AccentedBase[IndexOf(AccentedUpper, s[i])]
        ELSE IF IndexOf(AccentedLower, s[i]) # 0
             THEN LowerLetters[IndexOf(UpperLetters, AccentedBase[IndexOf(AccentedLower, s[i])])]
             ELSE s[i]]

RECURSIVE SelectChars(_, _)
SelectChars(s, keep) ==
    IF s = <<>> THEN <<>>
    ELSE IF Head(s) \in keep THEN <<Head(s)>> \o SelectChars(Tail(s), keep)
         ELSE SelectChars(Tail(s), keep)

(***************************************************************************)
(* Cells, numbers and frames                                               *)
(***************************************************************************)
\* A spreadsheet cell: text, a number (in hundredths) or empty (NaN).
Txt(s) == [t |-> "str", s |-> s, n |-> 0]
Num(n) == [t |-> "num", s |-> <<>>, n |-> n]
NaN == [t |-> "nan", s |-> <<>>, n |-> 0]

RECURSIVE DigitsOf(_)
DigitsOf(k) == IF k < 10 THEN <<Digits[k + 1]>>
               ELSE DigitsOf(k \div 10) \o <<Digits[(k % 10) + 1]>>

\* str(float): 510 is "5.1", 495 is "4.95", 2000 is "20.0"
NumStr(n) ==
    LET a == IF n < 0 THEN 0 - n ELSE n
        f == a % 100
    IN  (IF n < 0 THEN <<"-">> ELSE <<>>) \o DigitsOf(a \div 100) \o <<".">> \o
        (IF f % 10 = 0 THEN DigitsOf(f \div 10) ELSE DigitsOf(f \div 10) \o DigitsOf(f % 10))

\* Series.astype(str) on one cell
AsStr(c) == IF c.t = "str" THEN c.s
            ELSE IF c.t = "nan" THEN <<"n", "a", "n">>
            ELSE NumStr(c.n)

\* Series.fillna('').astype(str) on one cell
FillStr(c) == IF c.t = "nan" THEN <<>> ELSE AsStr(c)

AllDigits(s) == \A i \in 1..Len(s) : s[i] \in Range(Digits)

RECURSIVE IntVal(_)
IntVal(s) == IF s = <<>> THEN 0
             ELSE IntVal(SubSeq(s, 1, Len(s) - 1)) * 10 + (IndexOf(Digits, s[Len(s)]) - 1)

\* The fraction digits as hundredths (inputs carry at most two decimals).
FracVal(s) == IF Len(s) = 0 THEN 0
              ELSE IF Len(s) = 1 THEN IntVal(s) * 10
              ELSE IntVal(SubSeq(s, 1, 2))

\* The float a string denotes, for pd.to_numeric: [sign] digits [. digits];
\* anything else (a decimal comma, letters, the empty string) is no number.
ParseFloat(s) ==
    LET t == Strip(s)
        neg == t # <<>> /\ Head(t) = "-"
        u == IF t # <<>> /\ Head(t) \in {"-", "+"} THEN Tail(t) ELSE t
        dot == IndexOf(u, ".")
        ip == IF dot = 0 THEN u ELSE SubSeq(u, 1, dot - 1)
        fp == IF dot = 0 THEN <<>> ELSE SubSeq(u, dot + 1, Len(u))
        v == IntVal(ip) * 100 + FracVal(fp)
    IN  IF AllDigits(ip) /\ AllDigits(fp) /\ Len(ip) + Len(fp) > 0
        THEN Num(IF neg THEN 0 - v ELSE v)
        ELSE NaN

\* pd.to_numeric(series, errors='coerce') on one cell
ToNumeric(c) == IF c.t = "str" THEN ParseFloat(c.s) ELSE c

\* Series.astype(int) on one number: truncation toward zero
AsInt(c) == IF c.n < 0 THEN Num(0 - (((0 - c.n) \div 100) * 100))
            ELSE Num((c.n \div 100) * 100)

\* A frame is its column names and its rows, each row a function from column
\* name to cell.
Frame(columns, rows) == [columns |-> columns, rows |-> rows]

NoFrame == Frame(<<>>, <<>>)

HasColumn(df, col) == \E j \in 1..Len(df.columns) : df.columns[j] = col

\* df[col] = f(df[col]), when the frame has the column
MapColumn(df, col, F(_)) ==
    IF HasColumn(df, col)
    THEN Frame(df.columns, [i \in 1..Len(df.rows) |-> [df.rows[i] EXCEPT ![col] = F(@)]])
    ELSE df

\* df[col] = f(row): the column is added last when the frame lacks it
SetColumn(df, col, F(_)) ==
    Frame(IF HasColumn(df, col) THEN df.columns ELSE Append(df.columns, col),
          [i \in 1..Len(df.rows) |->
              [c \in DOMAIN df.rows[i] \cup {col} |->
                  IF c = col THEN F(df.rows[i]) ELSE df.rows[i][c]]])

\* df = df[mask(row)]
FilterRows(df, Keep(_)) == Frame(df.columns, SelectSeq(df.rows, Keep))

\* df.dropna(how='all')
dropna_all(df) ==
    LET NotBlank(row) == \E c \in DOMAIN row : row[c].t # "nan"
    IN  FilterRows(df, NotBlank)

(***************************************************************************)
(* ANPDownloader.load_data                                                 *)
(***************************************************************************)
\* The names load_data and _clean_data give the columns.
Column == [
    DATA_INICIAL |-> <<"D", "A", "T", "A", "_", "I", "N", "I", "C", "I", "A", "L">>,
    DATA_FINAL |-> <<"D", "A", "T", "A", "_", "F", "I", "N", "A", "L">>,
    REGIAO |-> <<"R", "E", "G", "I", "A", "O">>,
    ESTADO |-> <<"E", "S", "T", "A", "D", "O">>,
    MUNICIPIO |-> <<"M", "U", "N", "I", "C", "I", "P", "I", "O">>,
    PRODUTO |-> <<"P", "R", "O", "D", "U", "T", "O">>,
    NUMERO_DE_POSTOS_PESQUISADOS |-> <<"N", "U", "M", "E", "R", "O", "_", "D", "E", "_", "P", "O", "S", "T", "O", "S", "_", "P", "E", "S", "Q", "U", "I", "S", "A", "D", "O", "S">>,
    UNIDADE_DE_MEDIDA |-> <<"U", "N", "I", "D", "A", "D", "E", "_", "D", "E", "_", "M", "E", "D", "I", "D", "A">>,
    PRECO_MEDIO_REVENDA |-> <<"P", "R", "E", "C", "O", "_", "M", "E", "D", "I", "O", "_", "R", "E", "V", "E", "N", "D", "A">>,
    DESVIO_PADRAO_REVENDA |-> <<"D", "E", "S", "V", "I", "O", "_", "P", "A", "D", "R", "A", "O", "_", "R", "E", "V", "E", "N", "D", "A">>,
    PRECO_MINIMO_REVENDA |-> <<"P", "R", "E", "C", "O", "_", "M", "I", "N", "I", "M", "O", "_", "R", "E", "V", "E", "N", "D", "A">>,
    PRECO_MAXIMO_REVENDA |-> <<"P", "R", "E", "C", "O", "_", "M", "A", "X", "I", "M", "O", "_", "R", "E", "V", "E", "N", "D", "A">>,
    COEF_DE_VARIACAO_REVENDA |-> <<"C", "O", "E", "F", "_", "D", "E", "_", "V", "A", "R", "I", "A", "C", "A", "O", "_", "R", "E", "V", "E", "N", "D", "A">>,
    MARGEM_MEDIA_REVENDA |-> <<"M", "A", "R", "G", "E", "M", "_", "M", "E", "D", "I", "A", "_", "R", "E", "V", "E", "N", "D", "A">>,
    ESTADO_SIGLA |-> <<"E", "S", "T", "A", "D", "O", "_", "S", "I", "G", "L", "A">>,
    PRODUTO_CONSOLIDADO |-> <<"P", "R", "O", "D", "U", "T", "O", "_", "C", "O", "N", "S", "O", "L", "I", "D", "A", "D", "O">> ]

\* Rows of the sheet scanned for the header, the rows the last attempt looks
\* at, its column count and the header row it assumes.
HeaderScanRows == 20
StructureScanFrom == 5
StructureScanTo == 15
StructureMinColumns == 10
DefaultHeaderRow == 10
\* Distinct key columns a row must name in the second attempt.
MinAnchorMatches == 2

\* ' '.join(df_all.iloc[i].fillna('').astype(str).str.strip().str.upper())
linha_str(row) == Join([j \in 1..Len(row) |-> Upper(Strip(FillStr(row[j])))], <<" ">>)

HasText(l, a, b) == Contains(l, a) \/ Contains(l, b)

HasDataInicial(row) == HasText(linha_str(row), <<"D", "A", "T", "A", " ", "I", "N", "I", "C", "I", "A", "L">>, <<"D", "A", "T", "A", "_", "I", "N", "I", "C", "I", "A", "L">>)

\* matches of the second attempt: MUNICIPIO, PRODUTO, ESTADO
CountAnchors(l) ==
      (IF HasText(l, <<"M", "U", "N", "I", "C", "I'", "P", "I", "O">>, <<"M", "U", "N", "I", "C", "I", "P", "I", "O">>) THEN 1 ELSE 0)
    + (IF Contains(l, <<"P", "R", "O", "D", "U", "T", "O">>) THEN 1 ELSE 0)
    + (IF Contains(l, <<"E", "S", "T", "A", "D", "O">>) THEN 1 ELSE 0)

AnchorMatches(row) == CountAnchors(linha_str(row))

Min(a, b) == IF a < b THEN a ELSE b

\* The first row index (from 0) in 0..n-1 that satisfies Test, or -1.
Least(S) == IF S = {} THEN -1 ELSE CHOOSE i \in S : \A k \in S : i <= k

FirstRow(grid, n, Test(_)) == Least({ i \in 0..(n - 1) : Test(grid[i + 1]) })

HasDiesel(row) ==
    Len(row) >= StructureMinColumns
    /\ \E j \in 1..Len(row) : Contains(Upper(Strip(FillStr(row[j]))), <<"D", "I", "E", "S", "E", "L">>)

\* The last attempt indexes df_all.iloc[i] for i in 5..14: the first row it
\* accepts, -1 when it reaches row 14 without one, -2 when it indexes past
\* the end of the sheet first (IndexError).
StructureScan(grid) ==
    LET hit == Least({ i \in StructureScanFrom..(StructureScanTo - 1) :
                        i < Len(grid) /\ HasDiesel(grid[i + 1]) })
    IN  IF hit # -1 THEN hit
        ELSE IF Len(grid) < StructureScanTo THEN -2
        ELSE -1

Found(h, how) == [err |-> "", header_row |-> h, found |-> how]

\* The header row load_data settles on: [err, header_row, found].
HeaderChoice(h1, h2, h3) ==
    IF h1 # -1 THEN Found(h1, "DATA INICIAL")
    ELSE IF h2 # -1 THEN Found(h2, "anchors")
    ELSE IF h3 = -2 THEN [err |-> "IndexError", header_row |-> -1, found |-> ""]
    ELSE IF h3 # -1 THEN Found(DefaultHeaderRow, "structure")
    ELSE Found(DefaultHeaderRow, "default")

TwoAnchors(row) == AnchorMatches(row) >= MinAnchorMatches

FindHeaderRow(grid) ==
    HeaderChoice(FirstRow(grid, Min(HeaderScanRows, Len(grid)), HasDataInicial),
                 FirstRow(grid, Min(HeaderScanRows, Len(grid)), TwoAnchors),
                 StructureScan(grid))

\* pandas' name for a header cell: the text, "Unnamed: j" for an empty one.
HeaderCellName(cell, j) ==
    IF cell.t = "nan" THEN <<"U", "n", "n", "a", "m", "e", "d", ":", " ">> \o DigitsOf(j - 1) ELSE AsStr(cell)

\* pandas renames a repeated header name "X" to "X.1", "X.2", ...
MangleDupes(names) ==
    [j \in 1..Len(names) |->
        LET before == Cardinality({ k \in 1..(j - 1) : names[k] = names[j] })
        IN  IF before = 0 THEN names[j] ELSE names[j] \o <<".">> \o DigitsOf(before)]

\* The else branch of the column mapping: spaces to underscores, the listed
\* accented capitals to their base letter.
CleanColumnName(col_str) ==
    [i \in 1..Len(col_str) |->
        IF col_str[i] = " " THEN "_"
        ELSE IF col_str[i] \in {"C,", "A~", "A'", "E'", "I'", "O'", "U'", "O^", "E^", "A^"}
             THEN AccentedBase[IndexOf(AccentedUpper, col_str[i])]
             ELSE col_str[i]]

\* column_mapping[col]
MappedName(col_str) ==
    LET has(x) == Contains(col_str, x)
    IN  IF has(<<"D", "A", "T", "A", " ", "I", "N", "I", "C", "I", "A", "L">>) \/ has(<<"D", "A", "T", "A", "_", "I", "N", "I", "C", "I", "A", "L">>) THEN Column.DATA_INICIAL
        ELSE IF has(<<"D", "A", "T", "A", " ", "F", "I", "N", "A", "L">>) \/ has(<<"D", "A", "T", "A", "_", "F", "I", "N", "A", "L">>) THEN Column.DATA_FINAL
        ELSE IF has(<<"R", "E", "G", "I", "A~", "O">>) \/ has(<<"R", "E", "G", "I", "A", "O">>) THEN Column.REGIAO
        ELSE IF has(<<"E", "S", "T", "A", "D", "O">>) THEN Column.ESTADO
        ELSE IF has(<<"M", "U", "N", "I", "C", "I'", "P", "I", "O">>) \/ has(<<"M", "U", "N", "I", "C", "I", "P", "I", "O">>) THEN Column.MUNICIPIO
        ELSE IF has(<<"P", "R", "O", "D", "U", "T", "O">>) THEN Column.PRODUTO
        ELSE IF has(<<"N", "U'", "M", "E", "R", "O">>) /\ has(<<"P", "O", "S", "T", "O", "S">>) THEN Column.NUMERO_DE_POSTOS_PESQUISADOS
        ELSE IF has(<<"U", "N", "I", "D", "A", "D", "E">>) /\ has(<<"M", "E", "D", "I", "D", "A">>) THEN Column.UNIDADE_DE_MEDIDA
        ELSE IF has(<<"P", "R", "E", "C,", "O", " ", "M", "E'", "D", "I", "O">>) \/ has(<<"P", "R", "E", "C", "O", " ", "M", "E", "D", "I", "O">>) THEN Column.PRECO_MEDIO_REVENDA
        ELSE IF has(<<"D", "E", "S", "V", "I", "O">>) /\ has(<<"P", "A", "D", "R", "A~", "O">>) THEN Column.DESVIO_PADRAO_REVENDA
        ELSE IF has(<<"P", "R", "E", "C,", "O", " ", "M", "I'", "N", "I", "M", "O">>) \/ has(<<"P", "R", "E", "C", "O", " ", "M", "I", "N", "I", "M", "O">>) THEN Column.PRECO_MINIMO_REVENDA
        ELSE IF has(<<"P", "R", "E", "C,", "O", " ", "M", "A'", "X", "I", "M", "O">>) \/ has(<<"P", "R", "E", "C", "O", " ", "M", "A", "X", "I", "M", "O">>) THEN Column.PRECO_MAXIMO_REVENDA
        ELSE IF has(<<"C", "O", "E", "F">>) /\ has(<<"V", "A", "R", "I", "A", "C,", "A~", "O">>) THEN Column.COEF_DE_VARIACAO_REVENDA
        ELSE IF has(<<"M", "A", "R", "G", "E", "M">>) /\ has(<<"M", "E'", "D", "I", "A">>) THEN Column.MARGEM_MEDIA_REVENDA
        ELSE CleanColumnName(col_str)

ColumnMapping(col) == MappedName(Strip(Upper(col)))

price_columns == {Column.PRECO_MEDIO_REVENDA, Column.PRECO_MINIMO_REVENDA, Column.PRECO_MAXIMO_REVENDA,
                  Column.DESVIO_PADRAO_REVENDA, Column.COEF_DE_VARIACAO_REVENDA}

\* str.upper().str.strip() after astype(str)
UpperStrip(c) == Txt(Strip(Upper(AsStr(c))))

invalid_products == {<<>>, <<"N", "A", "N">>, <<"N", "O", "N", "E">>, <<"N", "U", "L", "L">>}

essential_cols == {Column.PRODUTO, Column.MUNICIPIO, Column.ESTADO, Column.PRECO_MEDIO_REVENDA}

\* pd.read_excel(header=header_row): the names of the header row, the rows
\* below it keyed by name.
HeaderNames(hdr) == MangleDupes([j \in 1..Len(hdr) |-> HeaderCellName(hdr[j], j)])

KeyRows(names, body) ==
    Frame(names, [i \in 1..Len(body) |->
                    [c \in Range(names) |-> body[i][IndexOf(names, c)]]])

read_excel(grid, header_row) ==
    KeyRows(HeaderNames(grid[header_row + 1]), SubSeq(grid, header_row + 2, Len(grid)))

\* df.columns stripped, then df.rename(columns=column_mapping).  A row of the
\* renamed frame reads, under a name two columns share, the first of them.
Renamed(df, names) ==
    Frame(names, [i \in 1..Len(df.rows) |->
                    [c \in Range(names) |-> df.rows[i][df.columns[IndexOf(names, c)]]]])

rename_columns(df) ==
    Renamed(df, [j \in 1..Len(df.columns) |-> ColumnMapping(Strip(df.columns[j]))])

Repeated(df, col) == Cardinality({ j \in 1..Len(df.columns) : df.columns[j] = col }) > 1

\* df[col] is a frame when two columns share the name: .str raises
\* AttributeError on it and pd.to_numeric TypeError.  The first statement of
\* the conversions that raises, "" when none does.
ConversionError(df) ==
    IF Repeated(df, Column.PRODUTO) THEN "AttributeError"
    ELSE IF \E c \in price_columns \cup {Column.NUMERO_DE_POSTOS_PESQUISADOS} : Repeated(df, c)
         THEN "TypeError"
    ELSE IF \E c \in {Column.ESTADO, Column.MUNICIPIO, Column.REGIAO} : Repeated(df, c)
         THEN "AttributeError"
    ELSE ""

\* pd.to_numeric(df[col], errors='coerce') for each price column present
NumericPrices(df) ==
    Frame(df.columns,
          [i \in 1..Len(df.rows) |->
              [c \in DOMAIN df.rows[i] |->
                  IF c \in price_columns THEN ToNumeric(df.rows[i][c]) ELSE df.rows[i][c]]])

\* pd.to_numeric(..., errors='coerce').fillna(0).astype(int)
StationsOrZero(c) == IF ToNumeric(c).t = "nan" THEN Num(0) ELSE AsInt(ToNumeric(c))

\* The price filter left out.
AnyPrice(df) == df

\* df[df['PRECO_MEDIO_REVENDA'] > 0] after dropna(subset=['PRECO_MEDIO_REVENDA'])
PositivePrice(df) ==
    LET Keep(row) == row[Column.PRECO_MEDIO_REVENDA].t = "num" /\ row[Column.PRECO_MEDIO_REVENDA].n > 0
    IN  IF HasColumn(df, Column.PRECO_MEDIO_REVENDA) THEN FilterRows(df, Keep) ELSE df

\* df[~df['PRODUTO'].isin(['', 'NAN', 'NONE', 'NULL'])]
KnownProduct(df) ==
    LET Keep(row) == row[Column.PRODUTO].s \notin invalid_products
    IN  IF HasColumn(df, Column.PRODUTO) THEN FilterRows(df, Keep) ELSE df

\* The conversions and filters of load_data, in the order of the code.
Converted(df) ==
    MapColumn(MapColumn(MapColumn(
        KnownProduct(PositivePrice(
            MapColumn(NumericPrices(MapColumn(df, Column.PRODUTO, UpperStrip)),
                      Column.NUMERO_DE_POSTOS_PESQUISADOS, StationsOrZero))),
        Column.ESTADO, UpperStrip), Column.MUNICIPIO, UpperStrip), Column.REGIAO, UpperStrip)

Loaded(fh, err, df) == [err |-> err, header_row |-> fh.header_row, found |-> fh.found, df |-> df]

ConvertedOrError(fh, df, err) ==
    IF err # "" THEN Loaded(fh, err, NoFrame) ELSE Loaded(fh, "", Converted(df))

LoadRenamed(fh, df) == ConvertedOrError(fh, df, ConversionError(df))

\* The sheet read under the header row chosen; read_excel raises on a header
\* row past the end of the sheet.
LoadWithHeader(grid, fh) ==
    IF fh.err # "" THEN Loaded(fh, fh.err, NoFrame)
    ELSE IF fh.header_row >= Len(grid) THEN Loaded(fh, "IndexError", NoFrame)
    ELSE LoadRenamed(fh, rename_columns(dropna_all(read_excel(grid, fh.header_row))))

\* load_data on the sheet df_all: [err, header_row, found, df]; err is the
\* exception load_data raises, "" when it returns df.
load_data(grid) == LoadWithHeader(grid, FindHeaderRow(grid))

(***************************************************************************)
(* DataProcessor._clean_data                                               *)
(***************************************************************************)

\* dict.get(key, default) on a dict written as a sequence of <<key, value>>
DictGet(dict, key, default) ==
    IF \E i \in 1..Len(dict) : dict[i][1] = key
    THEN dict[CHOOSE i \in 1..Len(dict) : dict[i][1] = key][2]
    ELSE default

\* re.sub(r'[^A-Z0-9\s]', '', text) after the accents are removed, stripped
_normalize_text(text) ==
    Strip(SelectChars(AsciiFold(text), Range(UpperLetters) \cup Range(Digits) \cup {" "}))

mapeamento == <<
    <<<<"S", "A", "O", " ", "P", "A", "U", "L", "O">>, <<"S", "P">>>>, <<<<"S", "A~", "O", " ", "P", "A", "U", "L", "O">>, <<"S", "P">>>>,
    <<<<"R", "I", "O", " ", "D", "E", " ", "J", "A", "N", "E", "I", "R", "O">>, <<"R", "J">>>>,
    <<<<"M", "I", "N", "A", "S", " ", "G", "E", "R", "A", "I", "S">>, <<"M", "G">>>>,
    <<<<"E", "S", "P", "I", "R", "I", "T", "O", " ", "S", "A", "N", "T", "O">>, <<"E", "S">>>>, <<<<"E", "S", "P", "I'", "R", "I", "T", "O", " ", "S", "A", "N", "T", "O">>, <<"E", "S">>>>,
    <<<<"P", "A", "R", "A", "N", "A">>, <<"P", "R">>>>, <<<<"P", "A", "R", "A", "N", "A'">>, <<"P", "R">>>>,
    <<<<"S", "A", "N", "T", "A", " ", "C", "A", "T", "A", "R", "I", "N", "A">>, <<"S", "C">>>>,
    <<<<"R", "I", "O", " ", "G", "R", "A", "N", "D", "E", " ", "D", "O", " ", "S", "U", "L">>, <<"R", "S">>>>,
    <<<<"M", "A", "T", "O", " ", "G", "R", "O", "S", "S", "O">>, <<"M", "T">>>>,
    <<<<"M", "A", "T", "O", " ", "G", "R", "O", "S", "S", "O", " ", "D", "O", " ", "S", "U", "L">>, <<"M", "S">>>>,
    <<<<"G", "O", "I", "A", "S">>, <<"G", "O">>>>, <<<<"G", "O", "I", "A'", "S">>, <<"G", "O">>>>,
    <<<<"D", "I", "S", "T", "R", "I", "T", "O", " ", "F", "E", "D", "E", "R", "A", "L">>, <<"D", "F">>>>,
    <<<<"B", "A", "H", "I", "A">>, <<"B", "A">>>>, <<<<"B", "A", "I'", "A">>, <<"B", "A">>>>,
    <<<<"P", "E", "R", "N", "A", "M", "B", "U", "C", "O">>, <<"P", "E">>>>,
    <<<<"C", "E", "A", "R", "A">>, <<"C", "E">>>>, <<<<"C", "E", "A", "R", "A'">>, <<"C", "E">>>>,
    <<<<"M", "A", "R", "A", "N", "H", "A", "O">>, <<"M", "A">>>>, <<<<"M", "A", "R", "A", "N", "H", "A~", "O">>, <<"M", "A">>>>,
    <<<<"P", "I", "A", "U", "I">>, <<"P", "I">>>>, <<<<"P", "I", "A", "U", "I'">>, <<"P", "I">>>>,
    <<<<"R", "I", "O", " ", "G", "R", "A", "N", "D", "E", " ", "D", "O", " ", "N", "O", "R", "T", "E">>, <<"R", "N">>>>,
    <<<<"P", "A", "R", "A", "I", "B", "A">>, <<"P", "B">>>>, <<<<"P", "A", "R", "A", "I'", "B", "A">>, <<"P", "B">>>>,
    <<<<"A", "L", "A", "G", "O", "A", "S">>, <<"A", "L">>>>,
    <<<<"S", "E", "R", "G", "I", "P", "E">>, <<"S", "E">>>>,
    <<<<"P", "A", "R", "A">>, <<"P", "A">>>>, <<<<"P", "A", "R", "A'">>, <<"P", "A">>>>,
    <<<<"A", "M", "A", "Z", "O", "N", "A", "S">>, <<"A", "M">>>>,
    <<<<"A", "C", "R", "E">>, <<"A", "C">>>>,
    <<<<"R", "O", "N", "D", "O", "N", "I", "A">>, <<"R", "O">>>>, <<<<"R", "O", "N", "D", "O^", "N", "I", "A">>, <<"R", "O">>>>,
    <<<<"R", "O", "R", "A", "I", "M", "A">>, <<"R", "R">>>>,
    <<<<"A", "M", "A", "P", "A">>, <<"A", "P">>>>, <<<<"A", "M", "A", "P", "A'">>, <<"A", "P">>>>,
    <<<<"T", "O", "C", "A", "N", "T", "I", "N", "S">>, <<"T", "O">>>> >>

estado_para_sigla(estado_nome) ==
    LET nome == Strip(Upper(estado_nome))
    IN  DictGet(mapeamento, nome, nome)

\* The regions get_region_from_state_sigla gives.
Region == [
    SUDESTE |-> <<"S", "U", "D", "E", "S", "T", "E">>,
    SUL |-> <<"S", "U", "L">>,
    NORDESTE |-> <<"N", "O", "R", "D", "E", "S", "T", "E">>,
    CENTRO_OESTE |-> <<"C", "E", "N", "T", "R", "O", "_", "O", "E", "S", "T", "E">>,
    NORTE |-> <<"N", "O", "R", "T", "E">>,
    NAO_IDENTIFICADA |-> <<"N", "A~", "O", " ", "I", "D", "E", "N", "T", "I", "F", "I", "C", "A", "D", "A">> ]

region_mapping == <<
    <<<<"S", "P">>, Region.SUDESTE>>, <<<<"R", "J">>, Region.SUDESTE>>, <<<<"M", "G">>, Region.SUDESTE>>, <<<<"E", "S">>, Region.SUDESTE>>,
    <<<<"P", "R">>, Region.SUL>>, <<<<"S", "C">>, Region.SUL>>, <<<<"R", "S">>, Region.SUL>>,
    <<<<"B", "A">>, Region.NORDESTE>>, <<<<"P", "E">>, Region.NORDESTE>>, <<<<"C", "E">>, Region.NORDESTE>>,
    <<<<"M", "A">>, Region.NORDESTE>>, <<<<"P", "I">>, Region.NORDESTE>>, <<<<"R", "N">>, Region.NORDESTE>>,
    <<<<"P", "B">>, Region.NORDESTE>>, <<<<"A", "L">>, Region.NORDESTE>>, <<<<"S", "E">>, Region.NORDESTE>>,
    <<<<"G", "O">>, Region.CENTRO_OESTE>>, <<<<"M", "T">>, Region.CENTRO_OESTE>>, <<<<"M", "S">>, Region.CENTRO_OESTE>>,
    <<<<"D", "F">>, Region.CENTRO_OESTE>>,
    <<<<"A", "M">>, Region.NORTE>>, <<<<"P", "A">>, Region.NORTE>>, <<<<"A", "C">>, Region.NORTE>>, <<<<"R", "O">>, Region.NORTE>>,
    <<<<"R", "R">>, Region.NORTE>>, <<<<"A", "P">>, Region.NORTE>>, <<<<"T", "O">>, Region.NORTE>> >>

\* the region of a state that is not resolved taken as SUDESTE
region_or_sudeste(sigla) == DictGet(region_mapping, Strip(Upper(sigla)), Region.SUDESTE)

get_region_from_state_sigla(sigla) ==
    DictGet(region_mapping, Strip(Upper(sigla)), Region.NAO_IDENTIFICADA)

valid_products == {
    <<"G", "A", "S", "O", "L", "I", "N", "A">>, <<"G", "A", "S", "O", "L", "I", "N", "A", " ", "C", "O", "M", "U", "M">>, <<"G", "A", "S", "O", "L", "I", "N", "A", " ", "A", "D", "I", "T", "I", "V", "A", "D", "A">>,
    <<"D", "I", "E", "S", "E", "L">>, <<"D", "I", "E", "S", "E", "L", " ", "S", "1", "0">>, <<"D", "I", "E", "S", "E", "L", " ", "S", "5", "0", "0">>,
    <<"G", "N", "V">>, <<"G", "A", "S", " ", "N", "A", "T", "U", "R", "A", "L", " ", "V", "E", "I", "C", "U", "L", "A", "R">>, <<"E", "T", "A", "N", "O", "L">>, <<"A", "L", "C", "O", "O", "L">> }

\* The classes product_mapping consolidates into.
Product == [
    GASOLINA |-> <<"G", "A", "S", "O", "L", "I", "N", "A">>,
    ETANOL |-> <<"E", "T", "A", "N", "O", "L">>,
    DIESEL |-> <<"D", "I", "E", "S", "E", "L">>,
    DIESEL_S10 |-> <<"D", "I", "E", "S", "E", "L", "_", "S", "1", "0">>,
    GNV |-> <<"G", "N", "V">> ]

product_mapping == <<
    <<<<"G", "A", "S", "O", "L", "I", "N", "A">>, Product.GASOLINA>>,
    <<<<"G", "A", "S", "O", "L", "I", "N", "A", " ", "C", "O", "M", "U", "M">>, Product.GASOLINA>>,
    <<<<"G", "A", "S", "O", "L", "I", "N", "A", " ", "A", "D", "I", "T", "I", "V", "A", "D", "A">>, Product.GASOLINA>>,
    <<<<"E", "T", "A", "N", "O", "L", " ", "H", "I", "D", "R", "A", "T", "A", "D", "O">>, Product.ETANOL>>,
    <<<<"E", "T", "A", "N", "O", "L">>, Product.ETANOL>>,
    <<<<"O'", "L", "E", "O", " ", "D", "I", "E", "S", "E", "L">>, Product.DIESEL>>,
    <<<<"O'", "L", "E", "O", " ", "D", "I", "E", "S", "E", "L", " ", "S", "1", "0">>, Product.DIESEL_S10>>,
    <<<<"O'", "L", "E", "O", "_", "D", "I", "E", "S", "E", "L">>, Product.DIESEL>>,
    <<<<"O'", "L", "E", "O", "_", "D", "I", "E", "S", "E", "L", "_", "S", "1", "0">>, Product.DIESEL_S10>>,
    <<<<"D", "I", "E", "S", "E", "L">>, Product.DIESEL>>,
    <<<<"D", "I", "E", "S", "E", "L", " ", "S", "1", "0">>, Product.DIESEL_S10>>,
    <<<<"G", "N", "V">>, Product.GNV>>,
    <<<<"G", "A'", "S", " ", "N", "A", "T", "U", "R", "A", "L", " ", "V", "E", "I", "C", "U", "L", "A", "R">>, Product.GNV>> >>

required_columns == <<Column.MUNICIPIO, Column.ESTADO, Column.PRODUTO, Column.PRECO_MEDIO_REVENDA>>

\* The columns drop_duplicates compares.
dedup_subset == <<Column.MUNICIPIO, Column.ESTADO, Column.PRODUTO_CONSOLIDADO>>

SameKey(a, b, subset) == \A k \in 1..Len(subset) : a[subset[k]] = b[subset[k]]

\* drop_duplicates(subset, keep='last')
RECURSIVE drop_duplicates_keep_last(_, _)
drop_duplicates_keep_last(rows, subset) ==
    IF rows = <<>> THEN <<>>
    ELSE LET rest == drop_duplicates_keep_last(Tail(rows), subset)
         IN  IF \E i \in 2..Len(rows) : SameKey(rows[i], rows[1], subset)
             THEN rest ELSE <<rows[1]>> \o rest

\* no duplicate removed
keep_duplicates(rows, subset) == rows

\* drop_duplicates(subset, keep='first')
RECURSIVE drop_duplicates(_, _)
drop_duplicates(rows, subset) ==
    IF rows = <<>> THEN <<>>
    ELSE LET rest == drop_duplicates(SubSeq(rows, 1, Len(rows) - 1), subset)
             last == rows[Len(rows)]
         IN  IF \E i \in 1..(Len(rows) - 1) : SameKey(rows[i], last, subset)
             THEN rest ELSE Append(rest, last)

Orderings(n) == { p \in [1..n -> 1..n] : \A i, j \in 1..n : p[i] = p[j] => i = j }

\* sort_values(col): the default sort is not stable, so rows of equal value
\* may come out in any order
sort_values(rows, col) ==
    { [i \in 1..Len(rows) |-> rows[p[i]]] : p \in
        { q \in Orderings(Len(rows)) :
            \A i \in 1..(Len(rows) - 1) : rows[q[i]][col].n <= rows[q[i + 1]][col].n } }

\* required_columns the frame lacks
missing_cols(df) == { k \in 1..Len(required_columns) : ~HasColumn(df, required_columns[k]) }

\* pd.to_numeric(..., errors='coerce').fillna(1).astype(int), 1 without the column
StationsOrOne(df, row) ==
    IF ~HasColumn(df, Column.NUMERO_DE_POSTOS_PESQUISADOS) THEN Num(100)
    ELSE IF ToNumeric(row[Column.NUMERO_DE_POSTOS_PESQUISADOS]).t = "nan" THEN Num(100)
    ELSE AsInt(ToNumeric(row[Column.NUMERO_DE_POSTOS_PESQUISADOS]))

NumericColumns(df) ==
    LET Stations(row) == StationsOrOne(df, row)
    IN  SetColumn(MapColumn(df, Column.PRECO_MEDIO_REVENDA, ToNumeric),
                  Column.NUMERO_DE_POSTOS_PESQUISADOS, Stations)

\* str.upper().str.strip() on MUNICIPIO, ESTADO and PRODUTO
UpperStripKeys(df) ==
    MapColumn(MapColumn(MapColumn(df, Column.MUNICIPIO, UpperStrip), Column.ESTADO, UpperStrip),
              Column.PRODUTO, UpperStrip)

Normalized(c) == IF c.t = "str" THEN Txt(_normalize_text(c.s)) ELSE c

\* _normalize_text on MUNICIPIO and PRODUTO
NormalizeKeys(df) == MapColumn(MapColumn(df, Column.MUNICIPIO, Normalized), Column.PRODUTO, Normalized)

\* df['ESTADO_SIGLA'] = df['ESTADO'].apply(estado_para_sigla)
AddSigla(df) ==
    LET Sigla(row) == Txt(estado_para_sigla(AsStr(row[Column.ESTADO])))
    IN  SetColumn(df, Column.ESTADO_SIGLA, Sigla)

RegionName(r) ==
    Replace(Replace(r, <<"C", "E", "N", "T", "R", "O", " ", "O", "E", "S", "T", "E">>, <<"C", "E", "N", "T", "R", "O", "-", "O", "E", "S", "T", "E">>), <<"C", "E", "N", "T", "R", "O", " ", " ", "O", "E", "S", "T", "E">>, <<"C", "E", "N", "T", "R", "O", "-", "O", "E", "S", "T", "E">>)

\* df['REGIAO'] from ESTADO_SIGLA, upper-cased, stripped, its spellings of
\* CENTRO-OESTE unified.  (The REGIAO of the file, normalised earlier, is
\* overwritten here.)
AddRegiao(df) ==
    LET Regiao(row) ==
            Txt(RegionName(Strip(Upper(get_region_from_state_sigla(AsStr(row[Column.ESTADO_SIGLA]))))))
    IN  SetColumn(df, Column.REGIAO, Regiao)

\* df[df['PRODUTO'].isin(valid_products)]
ValidProducts(df) ==
    LET Keep(row) == row[Column.PRODUTO].s \in valid_products
    IN  FilterRows(df, Keep)

MappedProduct(label) == DictGet(product_mapping, label, label)

\* df['PRODUTO'] stripped and upper-cased, then
\* df['PRODUTO_CONSOLIDADO'] = df['PRODUTO'].map(lambda x: product_mapping.get(x, x))
AddConsolidado(df) ==
    LET Consolidado(row) == Txt(MappedProduct(row[Column.PRODUTO].s))
    IN  SetColumn(MapColumn(df, Column.PRODUTO, UpperStrip), Column.PRODUTO_CONSOLIDADO, Consolidado)

\* The frame up to the duplicate removal, in the order of the code.
Cleaned(df) ==
    AddConsolidado(ValidProducts(AddRegiao(AddSigla(NormalizeKeys(UpperStripKeys(
        PositivePrice(NumericColumns(dropna_all(df)))))))))

\* sort_values('PRECO_MEDIO_REVENDA') then drop_duplicates(subset, keep='first'):
\* one frame for each order the sort may give rows of equal price.
Deduplicated(df) ==
    { [err |-> "", df |-> Frame(df.columns, drop_duplicates(sorted, dedup_subset))] :
        sorted \in sort_values(df.rows, Column.PRECO_MEDIO_REVENDA) }

\* The frames _clean_data can leave in self.df, or the error it raises:
\* the set of [err, df].
_clean_data(df) ==
    IF missing_cols(df) # {} THEN { [err |-> "ValueError", df |-> NoFrame] }
    ELSE Deduplicated(Cleaned(df))

(***************************************************************************)
(* The sheets ingested                                                     *)
(***************************************************************************)
\* Bounds of the model.
MaxRows == 2

\* One data row of the ANP sheet, by field.
Row(state, city, product, stations, price) ==
    [state |-> state, city |-> city, product |-> product,
     stations |-> stations, price |-> price]

BaseRow == Row(Txt(<<"S", "P">>), Txt(<<"S", "A", "O", " ", "P", "A", "U", "L", "O">>), Txt(<<"G", "A", "S", "O", "L", "I", "N", "A">>), Num(2000), Num(500))

\* The rows a sheet may hold: every label of the consolidation table, labels
\* outside it, one city under several spellings of its state, and prices
\* that are valid, missing, textual, zero or negative.
RowPool == {
    BaseRow,
    Row(Txt(<<"S", "P">>), Txt(<<"S", "A", "O", " ", "P", "A", "U", "L", "O">>), Txt(<<"G", "A", "S", "O", "L", "I", "N", "A">>), Num(1500), Num(480)),
    Row(Txt(<<"S", "a~", "o", " ", "P", "a", "u", "l", "o">>), Txt(<<" ", "S", "a~", "o", " ", "P", "a", "u", "l", "o", " ">>), Txt(<<"g", "a", "s", "o", "l", "i", "n", "a", " ", "c", "o", "m", "u", "m">>), Num(2000), Num(480)),
    Row(Txt(<<"S", "P">>), Txt(<<"S", "A", "O", " ", "P", "A", "U", "L", "O">>), Txt(<<"G", "A", "S", "O", "L", "I", "N", "A", " ", "A", "D", "I", "T", "I", "V", "A", "D", "A">>), NaN, Num(500)),
    Row(Txt(<<"S", "P">>), Txt(<<"C", "A", "M", "P", "I", "N", "A", "S">>), Txt(<<"O'", "L", "E", "O", " ", "D", "I", "E", "S", "E", "L">>), Num(2000), Num(600)),
    Row(Txt(<<"R", "J">>), Txt(<<"R", "I", "O", " ", "D", "E", " ", "J", "A", "N", "E", "I", "R", "O">>), Txt(<<"D", "I", "E", "S", "E", "L">>), Txt(<<"7">>), Num(610)),
    Row(Txt(<<"S", "P">>), Txt(<<"S", "A", "O", " ", "P", "A", "U", "L", "O">>), Txt(<<"O'", "L", "E", "O", " ", "D", "I", "E", "S", "E", "L", " ", "S", "1", "0">>), Num(2000), Num(620)),
    Row(Txt(<<"S", "P">>), Txt(<<"S", "A", "O", " ", "P", "A", "U", "L", "O">>), Txt(<<"D", "I", "E", "S", "E", "L", " ", "S", "1", "0">>), Num(350), Num(630)),
    Row(Txt(<<"S", "P">>), Txt(<<"S", "A", "O", " ", "P", "A", "U", "L", "O">>), Txt(<<"E", "T", "A", "N", "O", "L">>), Num(2000), Num(399)),
    Row(Txt(<<"S", "P">>), Txt(<<"S", "A", "O", " ", "P", "A", "U", "L", "O">>), Txt(<<"E", "T", "A", "N", "O", "L", " ", "H", "I", "D", "R", "A", "T", "A", "D", "O">>), Num(2000), Num(410)),
    Row(Txt(<<"S", "P">>), Txt(<<"S", "A", "O", " ", "P", "A", "U", "L", "O">>), Txt(<<"A", "L", "C", "O", "O", "L">>), Num(2000), Num(389)),
    Row(Txt(<<"S", "P">>), Txt(<<"S", "A", "O", " ", "P", "A", "U", "L", "O">>), Txt(<<"G", "N", "V">>), Num(2000), Num(450)),
    Row(Txt(<<"S", "P">>), Txt(<<"S", "A", "O", " ", "P", "A", "U", "L", "O">>), Txt(<<"G", "A'", "S", " ", "N", "A", "T", "U", "R", "A", "L", " ", "V", "E", "I", "C", "U", "L", "A", "R">>), Num(2000), Num(460)),
    Row(Txt(<<"S", "P">>), Txt(<<"S", "A", "O", " ", "P", "A", "U", "L", "O">>), Txt(<<"B", "I", "O", "D", "I", "E", "S", "E", "L">>), Num(2000), Num(550)),
    Row(Txt(<<"S", "P">>), Txt(<<"S", "A", "O", " ", "P", "A", "U", "L", "O">>), Txt(<<"D", "I", "E", "S", "E", "L", " ", "S", "5", "0", "0">>), Num(2000), Num(590)),
    Row(Txt(<<"S", "P">>), Txt(<<"S", "A", "O", " ", "P", "A", "U", "L", "O">>), Txt(<<"G", "A", "S", "O", "L", "I", "N", "A">>), Num(2000), Num(0)),
    Row(Txt(<<"S", "P">>), Txt(<<"S", "A", "O", " ", "P", "A", "U", "L", "O">>), Txt(<<"G", "A", "S", "O", "L", "I", "N", "A">>), Num(2000), Num(-100)),
    Row(Txt(<<"S", "P">>), Txt(<<"S", "A", "O", " ", "P", "A", "U", "L", "O">>), Txt(<<"G", "A", "S", "O", "L", "I", "N", "A">>), Num(2000), NaN),
    Row(Txt(<<"S", "P">>), Txt(<<"S", "A", "O", " ", "P", "A", "U", "L", "O">>), Txt(<<"G", "A", "S", "O", "L", "I", "N", "A">>), Num(2000), Txt(<<"a", "b", "c">>)),
    Row(Txt(<<"S", "P">>), Txt(<<"S", "A", "O", " ", "P", "A", "U", "L", "O">>), Txt(<<"G", "A", "S", "O", "L", "I", "N", "A">>), Num(2000), Txt(<<"5", ",", "1", "0">>)),
    Row(Txt(<<"S", "P">>), Txt(<<"S", "A", "O", " ", "P", "A", "U", "L", "O">>), Txt(<<"G", "A", "S", "O", "L", "I", "N", "A">>), Num(2000), Txt(<<"5", ".", "1", "0">>)),
    Row(Txt(<<"X", "X">>), Txt(<<"S", "A", "O", " ", "P", "A", "U", "L", "O">>), Txt(<<"G", "A", "S", "O", "L", "I", "N", "A">>), Num(2000), Num(470)),
    Row(Txt(<<"S", "P">>), NaN, Txt(<<"E", "T", "A", "N", "O", "L">>), Num(2000), Num(380)) }

\* A header is the sequence of its columns, each the field it carries and
\* the label of its cell.
Col(field, label) == [field |-> field, label |-> label]

\* The cells of the weekly header, each with the field of the rows under it.
HeaderCell == [
    DATA_INICIAL |-> Col("date", Txt(<<"D", "A", "T", "A", " ", "I", "N", "I", "C", "I", "A", "L">>)),
    DATA_FINAL |-> Col("date", Txt(<<"D", "A", "T", "A", " ", "F", "I", "N", "A", "L">>)),
    ESTADO |-> Col("state", Txt(<<"E", "S", "T", "A", "D", "O">>)),
    MUNICIPIO |-> Col("city", Txt(<<"M", "U", "N", "I", "C", "I'", "P", "I", "O">>)),
    PRODUTO |-> Col("product", Txt(<<"P", "R", "O", "D", "U", "T", "O">>)),
    POSTOS |-> Col("stations", Txt(<<"N", "U'", "M", "E", "R", "O", " ", "D", "E", " ", "P", "O", "S", "T", "O", "S", " ", "P", "E", "S", "Q", "U", "I", "S", "A", "D", "O", "S">>)),
    PRECO |-> Col("price", Txt(<<"P", "R", "E", "C,", "O", " ", "M", "E'", "D", "I", "O", " ", "R", "E", "V", "E", "N", "D", "A">>)) ]

\* The weekly sheet's header.
WeeklyHeader == <<HeaderCell.DATA_INICIAL, HeaderCell.DATA_FINAL, HeaderCell.ESTADO, HeaderCell.MUNICIPIO, HeaderCell.PRODUTO,
                  HeaderCell.POSTOS, HeaderCell.PRECO>>

Without(header, field) ==
    LET Keep(c) == c.field # field IN SelectSeq(header, Keep)

\* The monthly layout: no DATA INICIAL, found by its key columns.
MonthlyHeader == <<Col("date", Txt(<<"M", "E^", "S">>)), HeaderCell.PRODUTO, Col("region", Txt(<<"R", "E", "G", "I", "A~", "O">>)),
                   HeaderCell.ESTADO, HeaderCell.MUNICIPIO, HeaderCell.POSTOS, HeaderCell.PRECO>>

HeaderPool == {
    WeeklyHeader,
    MonthlyHeader,
    \* one required column missing
    Without(WeeklyHeader, "state"),
    Without(WeeklyHeader, "city"),
    Without(WeeklyHeader, "product"),
    Without(WeeklyHeader, "price"),
    Without(MonthlyHeader, "price"),
    \* no key column at all
    <<Col("state", Txt(<<"U", "F">>)), Col("city", Txt(<<"C", "I", "D", "A", "D", "E">>)),
      Col("product", Txt(<<"C", "O", "M", "B", "U", "S", "T", "I", "V", "E", "L">>)), Col("price", Txt(<<"V", "A", "L", "O", "R">>))>>,
    \* a single key column, on a sheet of ten columns
    <<Col("state", Txt(<<"U", "F">>)), Col("city", Txt(<<"C", "I", "D", "A", "D", "E">>)), HeaderCell.PRODUTO,
      Col("price", Txt(<<"V", "A", "L", "O", "R">>)), Col("x", NaN), Col("x", NaN), Col("x", NaN),
      Col("x", NaN), Col("x", NaN), Col("x", Txt(<<"O", "B", "S">>))>>,
    \* labels no attempt recognises but the column mapping cleans into the names
    <<Col("state", Txt(<<"E", "S", "T", "A'", "D", "O">>)), Col("city", Txt(<<"M", "U", "N", "I", "C,", "I", "P", "I", "O">>)),
      Col("product", Txt(<<"P", "R", "O'", "D", "U", "T", "O">>)), HeaderCell.PRECO>>,
    \* two columns that both map to ESTADO
    <<HeaderCell.DATA_INICIAL, HeaderCell.ESTADO, Col("state", Txt(<<"E", "S", "T", "A", "D", "O", " ", "-", " ", "S", "I", "G", "L", "A">>)), HeaderCell.MUNICIPIO,
      HeaderCell.PRODUTO, HeaderCell.PRECO>> }

\* Rows above the header: a title, a blank row, then notes naming one key column.
PreambleRow(i, width) ==
    [j \in 1..width |->
        IF j # 1 \/ i = 2 THEN NaN
        ELSE IF i = 1 THEN Txt(<<"A", "N", "P", " ", "-", " ", "S", "e'", "r", "i", "e", " ", "H", "i", "s", "t", "o'", "r", "i", "c", "a">>)
        ELSE Txt(<<"P", "r", "e", "c,", "o", "s", " ", "p", "o", "r", " ", "p", "r", "o", "d", "u", "t", "o">>)]

FieldCell(field, r) ==
    CASE field = "state" -> r.state
      [] field = "city" -> r.city
      [] field = "product" -> r.product
      [] field = "stations" -> r.stations
      [] field = "price" -> r.price
      [] field = "region" -> Txt(<<"S", "U", "D", "E", "S", "T", "E">>)
      [] field = "date" -> Txt(<<"2", "0", "2", "4", "-", "0", "1", "-", "0", "7">>)
      [] OTHER -> NaN

\* The sheet with `pre` rows above its header and the rows below it.
MakeSheet(pre, header, rows) ==
    [i \in 1..pre |-> PreambleRow(i, Len(header))]
    \o <<[j \in 1..Len(header) |-> header[j].label]>>
    \o [i \in 1..Len(rows) |-> [j \in 1..Len(header) |-> FieldCell(header[j].field, rows[i])]]

RowSeqs == UNION { [1..n -> RowPool] : n \in 0..MaxRows }

\* The rows under the headers of HeaderPool.
SampleRows == <<
    BaseRow,
    Row(Txt(<<"S", "P">>), Txt(<<"S", "A", "O", " ", "P", "A", "U", "L", "O">>), Txt(<<"E", "T", "A", "N", "O", "L">>), Num(2000), Num(399)),
    Row(Txt(<<"S", "P">>), Txt(<<"C", "A", "M", "P", "I", "N", "A", "S">>), Txt(<<"D", "I", "E", "S", "E", "L">>), Num(2000), Num(600)),
    Row(Txt(<<"R", "J">>), Txt(<<"R", "I", "O", " ", "D", "E", " ", "J", "A", "N", "E", "I", "R", "O">>), Txt(<<"D", "I", "E", "S", "E", "L", " ", "S", "1", "0">>), Num(2000), Num(610)) >>

\* Numbers of rows above the header: none, a short preamble, the default
\* header row, the scenario's twelve, and past the rows scanned.
PreambleSizes == {0, 3, DefaultHeaderRow, 12, HeaderScanRows}

\* Notes of the rows above the header that name key columns themselves: the
\* survey's period, and a title of two key columns.
Notes == { Txt(<<"P", "E", "R", "I'", "O", "D", "O", " ", "-", " ", "D", "A", "T", "A", " ", "I", "N", "I", "C", "I", "A", "L", ":", " ", "0", "7", "/", "0", "1", "/", "2", "0", "2", "4">>), Txt(<<"P", "R", "E", "C,", "O", "S", " ", "P", "O", "R", " ", "P", "R", "O", "D", "U", "T", "O", " ", "E", " ", "E", "S", "T", "A", "D", "O">>) }

\* The sheet with the note in the first cell of its first row.
WithNote(grid, note) == [grid EXCEPT ![1] = [@ EXCEPT ![1] = note]]

Sheets ==
    { MakeSheet(2, WeeklyHeader, rows) : rows \in RowSeqs }
    \cup { MakeSheet(pre, header, SampleRows) : pre \in PreambleSizes, header \in HeaderPool }
    \cup { WithNote(MakeSheet(3, header, SampleRows), note) :
              header \in {WeeklyHeader, MonthlyHeader}, note \in Notes }

(***************************************************************************)
(* State                                                                   *)
(***************************************************************************)
VARIABLES
    sheet,          \* ingestion: the sheet read (df_all)
    loaded,         \* ingestion: what load_data returned or raised
    processed,      \* ingestion: what DataProcessor(df) left in self.df or raised
    ingest_pc,      \* ingestion: "load", "clean", "done"
    now,            \* serving: datetime.now(), in days
    remote,         \* serving: the file the ANP site serves, [ver, sheet]
    disk,           \* serving: data/anp_data_<year>.xlsx and its .json metadata
    last_update,    \* serving: cache.metadata['last_update'], <<>> for None
    _processor,     \* serving: routes/today._processor
    building,       \* serving: the DataProcessor whose constructor is running
    gp_pc,          \* serving: where the request's get_processor call stands
    gp,             \* serving: the locals of that call and what it gave
    sj_pc,          \* serving: where the scheduler's update_anp_data stands
    sj,             \* serving: the file that job downloaded
    ingested,       \* history: newest version a scheduled update put in place
    reply,          \* queries: the request a route has served and its response
    call,           \* utilities: the function called, its arguments and its results
    memory_cache,   \* cache: the items of CacheManager.memory_cache
    cache_dir,      \* cache: the items of the .pkl files of cache/
    cache_clock,    \* cache: datetime.now(), in units of CACHE_TTL
    cleared         \* history: the keys cleared and not set since

ingest_vars == <<sheet, loaded, processed, ingest_pc>>
serving_vars == <<now, remote, disk, last_update, _processor, building, gp_pc, gp,
                  sj_pc, sj, ingested>>
cache_vars == <<memory_cache, cache_dir, cache_clock, cleared>>
util_vars == <<call, cache_vars>>
vars == <<ingest_vars, serving_vars, reply, util_vars>>

NotLoaded == [err |-> "pending", header_row |-> -1, found |-> "", df |-> NoFrame]
NotProcessed == [err |-> "pending", df |-> NoFrame]

\* _processor = None, and no constructor running
NoProcessor == [oid |-> 0, stage |-> "none", ver |-> 0, source_columns |-> <<>>,
                df |-> NoFrame]
NoFile == [exists |-> FALSE, sheet |-> 0, ver |-> 0, date |-> 0]
\* download_file not called
NoFetch == [requested |-> FALSE, outcome |-> "none", raised |-> FALSE]
NoCall == [before |-> NoProcessor, need |-> 0, lacking |-> FALSE, ver |-> 0,
           df |-> NoFrame, reload |-> "none", status |-> "none", fetch |-> NoFetch]
NoJob == [ver |-> 0, sheet |-> 0]
\* no request served
NoReply == [route |-> "none", fuel_type |-> <<>>, limit |-> 0, status |-> 0, body |-> <<>>]

\* no utility called
NoUtility == [fn |-> "none", args |-> <<>>, out |-> <<>>]

\* a CacheManager with nothing in memory and no file in cache/
CacheIdle ==
    /\ memory_cache = {}
    /\ cache_dir = {}
    /\ cache_clock = 0
    /\ cleared = {}

UtilIdle == call = NoUtility /\ CacheIdle

IngestIdle ==
    /\ sheet = <<>>
    /\ loaded = NotLoaded
    /\ processed = NotProcessed
    /\ ingest_pc = "off"
    /\ reply = NoReply

ServingIdle ==
    /\ now = 0
    /\ remote = [ver |-> 0, sheet |-> 0]
    /\ disk = NoFile
    /\ last_update = <<>>
    /\ _processor = NoProcessor
    /\ building = NoProcessor
    /\ gp_pc = "off"
    /\ gp = NoCall
    /\ sj_pc = "off"
    /\ sj = NoJob
    /\ ingested = 0

(***************************************************************************)
(* Ingestion of one sheet: load_data, then DataProcessor(df)               *)
(***************************************************************************)
IngestInit ==
    /\ sheet \in Sheets
    /\ loaded = NotLoaded
    /\ processed = NotProcessed
    /\ ingest_pc = "load"
    /\ ServingIdle
    /\ reply = NoReply
    /\ UtilIdle

\* df = _downloader.load_data()
LoadData ==
    /\ ingest_pc = "load"
    /\ loaded' = load_data(sheet)
    /\ ingest_pc' = IF loaded'.err = "" THEN "clean" ELSE "done"
    /\ UNCHANGED <<sheet, processed, serving_vars, reply, util_vars>>

\* DataProcessor(df): _clean_data raises or leaves the cleaned frame
CleanData ==
    /\ ingest_pc = "clean"
    /\ \E result \in _clean_data(loaded.df) : processed' = result
    /\ ingest_pc' = "done"
    /\ UNCHANGED <<sheet, loaded, serving_vars, reply, util_vars>>

IngestNext == LoadData \/ CleanData

SpecIngest == IngestInit /\ [][IngestNext]_vars

(***************************************************************************)
(* Properties of the ingestion (SpecIngest)                                *)
(***************************************************************************)
\* DataProcessor(df) returned: processed.df is the table.
Produced == ingest_pc = "done" /\ processed.err = ""

Price(row) == row[Column.PRECO_MEDIO_REVENDA]

Distinct(rows, subset) ==
    \A i, j \in 1..Len(rows) : SameKey(rows[i], rows[j], subset) => i = j

\* C4: in the table DataProcessor produces there is exactly one observation
\* for every (city, state_code, product_class), whatever the input rows,
\* rows that write one state as a name and as a code included.
C4_OnePerCityStateCodeProduct ==
    Produced => Distinct(processed.df.rows,
                         <<Column.MUNICIPIO, Column.ESTADO_SIGLA, Column.PRODUTO_CONSOLIDADO>>)

\* Every row that reached the duplicate removal has, in the table, exactly one
\* row of its key, taken from the rows that reached it and priced no higher.
KeepsGroupMinimum(before, after) ==
    \A i \in 1..Len(before) :
        \E j \in 1..Len(after) :
            /\ SameKey(before[i], after[j], dedup_subset)
            /\ Price(after[j]).n <= Price(before[i]).n
            /\ \E m \in 1..Len(before) : before[m] = after[j]
            /\ \A k \in 1..Len(after) : SameKey(after[k], after[j], dedup_subset) => k = j

\* C5: of the input rows sharing the deduplication key (MUNICIPIO, ESTADO,
\* PRODUTO_CONSOLIDADO), the table retains one, and it has the minimum
\* PRECO_MEDIO_REVENDA of the group.
C5_MinimumPriceRetained ==
    Produced => KeepsGroupMinimum(Cleaned(loaded.df).rows, processed.df.rows)

\* Two rows of one key at 5.00 and 4.80 came in, and the table holds the 4.80 row only.
C5_TwoPricesOneKept ==
    /\ Produced
    /\ Len(loaded.df.rows) = 2
    /\ \E i \in 1..2 : Price(loaded.df.rows[i]) = Num(500)
    /\ Len(processed.df.rows) = 1
    /\ Price(processed.df.rows[1]) = Num(480)
    /\ processed.df.rows[1][Column.ESTADO] = Txt(<<"S", "P">>)

product_classes == {Product.GASOLINA, Product.ETANOL, Product.DIESEL, Product.DIESEL_S10, Product.GNV}

\* C6: every observation of the table has a product class among GASOLINA,
\* ETANOL, DIESEL, DIESEL_S10 and GNV.
C6_ProductClassIsCanonical ==
    Produced => \A i \in 1..Len(processed.df.rows) :
                    processed.df.rows[i][Column.PRODUTO_CONSOLIDADO].s \in product_classes

\* The labels the consolidation table lists, each with its class.
consolidation_table == <<
    <<<<"G", "A", "S", "O", "L", "I", "N", "A">>, Product.GASOLINA>>, <<<<"G", "A", "S", "O", "L", "I", "N", "A", " ", "C", "O", "M", "U", "M">>, Product.GASOLINA>>,
    <<<<"G", "A", "S", "O", "L", "I", "N", "A", " ", "A", "D", "I", "T", "I", "V", "A", "D", "A">>, Product.GASOLINA>>,
    <<<<"O'", "L", "E", "O", " ", "D", "I", "E", "S", "E", "L">>, Product.DIESEL>>, <<<<"D", "I", "E", "S", "E", "L">>, Product.DIESEL>>,
    <<<<"O'", "L", "E", "O", " ", "D", "I", "E", "S", "E", "L", " ", "S", "1", "0">>, Product.DIESEL_S10>>, <<<<"D", "I", "E", "S", "E", "L", " ", "S", "1", "0">>, Product.DIESEL_S10>>,
    <<<<"E", "T", "A", "N", "O", "L">>, Product.ETANOL>>, <<<<"E", "T", "A", "N", "O", "L", " ", "H", "I", "D", "R", "A", "T", "A", "D", "O">>, Product.ETANOL>>, <<<<"A", "L", "C", "O", "O", "L">>, Product.ETANOL>>,
    <<<<"G", "N", "V">>, Product.GNV>>, <<<<"G", "A'", "S", " ", "N", "A", "T", "U", "R", "A", "L", " ", "V", "E", "I", "C", "U", "L", "A", "R">>, Product.GNV>> >>

\* The rows of the pool that carry a listed label and are valid otherwise.
ListedRows ==
    { r \in RowPool :
        /\ r.price.t = "num" /\ r.price.n > 0
        /\ r.city.t = "str"
        /\ \E k \in 1..Len(consolidation_table) : r.product = Txt(consolidation_table[k][1]) }

RetainedAs(r, rows) ==
    /\ Len(rows) = 1
    /\ \E k \in 1..Len(consolidation_table) :
          /\ r.product = Txt(consolidation_table[k][1])
          /\ rows[1][Column.PRODUTO_CONSOLIDADO] = Txt(consolidation_table[k][2])

\* C7: a sheet of one valid row carrying a label of the consolidation table
\* gives a table of that one row, under the class the table assigns the label.
C7_ListedLabelsRetained ==
    ingest_pc = "done" =>
        \A r \in ListedRows :
            sheet = MakeSheet(2, WeeklyHeader, <<r>>) =>
                processed.err = "" /\ RetainedAs(r, processed.df.rows)

\* The price cells the pool holds that are missing, zero, negative or no number.
BadPrices == {NaN, Num(0), Num(-100), Txt(<<"a", "b", "c">>), Txt(<<"5", ",", "1", "0">>)}

\* The sheet laid out as the weekly file: two rows, the header, the data.
IsWeeklySheet ==
    Len(sheet) >= 3 /\ sheet[3] = [j \in 1..Len(WeeklyHeader) |-> WeeklyHeader[j].label]

GoodPriceRows == { i \in 4..Len(sheet) : sheet[i][Len(WeeklyHeader)] \notin BadPrices }

\* C8: every observation of the table has a numeric PRECO_MEDIO_REVENDA above
\* zero, and the table has no more rows than the sheet has rows whose price
\* is present, numeric and positive.
C8_PricesPositive ==
    Produced =>
        /\ \A i \in 1..Len(processed.df.rows) :
              Price(processed.df.rows[i]).t = "num" /\ Price(processed.df.rows[i]).n > 0
        /\ IsWeeklySheet => Len(processed.df.rows) <= Cardinality(GoodPriceRows)

\* A sheet with a priced row and a row of a bad price gave a table of the priced row.
C8_BadPriceDropped ==
    /\ Produced
    /\ IsWeeklySheet
    /\ Len(sheet) = 5
    /\ Cardinality(GoodPriceRows) = 1
    /\ Len(processed.df.rows) = 1

\* No row the header search scans carries DATA INICIAL or two of the key
\* columns MUNICIPIO, PRODUTO, ESTADO.
NoAnchorRow(grid) ==
    \A i \in 1..Min(HeaderScanRows, Len(grid)) :
        ~HasDataInicial(grid[i]) /\ ~TwoAnchors(grid[i])

\* C9: when no scanned row matches two anchor labels, load_data raises and
\* reads nothing under a default header row.
C9_NoAnchorsNoLoad ==
    (loaded # NotLoaded /\ NoAnchorRow(sheet)) => loaded.err # ""

(***************************************************************************)
(* The serving layer: get_processor on the event loop, update_anp_data on  *)
(* the scheduler's thread, the clock and the ANP site                      *)
(***************************************************************************)
MaxDay == 8
MaxReleases == 2

ANP_UPDATE_INTERVAL_DAYS == 7

\* The instants at which the clock is read: day 0, the day the update interval
\* ends, and a day after it.
Days == {0, ANP_UPDATE_INTERVAL_DAYS, MaxDay}

\* The files the ANP site may serve: the weekly sheet, the sheet of a later
\* week, the weekly sheet without one of its key columns, and a sheet in
\* which load_data finds no header.
NewerRows == <<
    Row(Txt(<<"S", "P">>), Txt(<<"S", "A", "O", " ", "P", "A", "U", "L", "O">>), Txt(<<"G", "A", "S", "O", "L", "I", "N", "A">>), Num(2000), Num(520)),
    Row(Txt(<<"S", "P">>), Txt(<<"S", "A", "O", " ", "P", "A", "U", "L", "O">>), Txt(<<"E", "T", "A", "N", "O", "L">>), Num(2000), Num(405)) >>

Releases == <<
    MakeSheet(3, WeeklyHeader, SampleRows),
    MakeSheet(3, WeeklyHeader, NewerRows),
    MakeSheet(3, Without(WeeklyHeader, "city"), SampleRows),
    MakeSheet(3, Without(WeeklyHeader, "state"), SampleRows),
    MakeSheet(3, Without(WeeklyHeader, "product"), SampleRows),
    MakeSheet(3, Without(WeeklyHeader, "price"), SampleRows),
    MakeSheet(0, <<Col("state", Txt(<<"U", "F">>)), Col("city", Txt(<<"C", "I", "D", "A", "D", "E">>)),
                    Col("product", Txt(<<"C", "O", "M", "B", "U", "S", "T", "I", "V", "E", "L">>)), Col("price", Txt(<<"V", "A", "L", "O", "R">>))>>,
              SampleRows) >>

\* CacheManager.should_refresh
should_refresh(timestamp, t) ==
    timestamp = <<>> \/ t - timestamp[1] > ANP_UPDATE_INTERVAL_DAYS

\* ANPDownloader._should_download
_should_download(file, t) ==
    ~file.exists \/ t - file.date >= ANP_UPDATE_INTERVAL_DAYS

\* What the candidate URLs give between them: a workbook, bytes that are no
\* workbook, or nothing (HTTP error, unexpected content type, too small).
Outcomes == {"ok", "corrupt", "unreachable"}

\* ANPDownloader.download_file once the URLs are tried: a workbook is written
\* and its metadata saved, bytes that pd.read_excel rejects are written and
\* removed, and nothing is written when no URL answers.
Downloaded(file, outcome, site, t) ==
    IF outcome = "ok" THEN [exists |-> TRUE, sheet |-> site.sheet, ver |-> site.ver,
                             date |-> t]
    ELSE IF outcome = "corrupt" THEN [file EXCEPT !.exists = FALSE]
    ELSE file

\* ANPDownloader.download_file: the path is returned at once, with no request,
\* when `not force and self._should_download(local_path)`; else the URLs are
\* tried, and when none gave a workbook the path is returned if the file is
\* there and an exception raised if it is not.  [file, fetch]: the file at
\* the path afterwards, and whether a request was made, what it gave and
\* whether the call raised.
download_file(file, force, outcome, site, t) ==
    IF ~force /\ _should_download(file, t)
    THEN [file |-> file, fetch |-> NoFetch]
    ELSE [file |-> Downloaded(file, outcome, site, t),
          fetch |-> [requested |-> TRUE, outcome |-> outcome,
                     raised |-> outcome # "ok" /\ ~Downloaded(file, outcome, site, t).exists]]

\* A file from which load_data and DataProcessor build a table.
Builds(results) == \A r \in results : r.err = ""

Ingestible(grid) == Builds(_clean_data(load_data(grid).df))

\* The error of _clean_data logged and not raised again.
swallowed(result) == FALSE

\* DataProcessor._clean_data: `except Exception as e: ... raise`
raises(result) == result.err # ""

\* The except branch raising whatever processor there is.
always_503(processor) == "503"

\* What the except branch of get_processor does with the error.
on_reload_error(processor) == IF processor.oid = 0 THEN "503" ELSE "ok"

\* A handler that filters processor.df itself.
filtered_in_place(df) == Frame(df.columns, <<>>)

\* What a request leaves in processor.df: the routes and the processor's
\* methods select from it (df[mask], .copy()) and assign to the selections only.
after_query(df) == df

ServingInit ==
    /\ now = 0
    /\ remote = [ver |-> 1, sheet |-> 1]
    /\ disk = NoFile
    /\ last_update = <<>>
    /\ _processor = NoProcessor
    /\ building = NoProcessor
    /\ gp_pc = "idle"
    /\ gp = NoCall
    /\ sj_pc = "idle"
    /\ sj = NoJob
    /\ ingested = 0
    /\ IngestIdle
    /\ UtilIdle

\* get_processor(): `if _processor is None or cache.should_refresh()`
GpCall ==
    /\ gp_pc = "idle"
    /\ gp' = [NoCall EXCEPT !.before = _processor, !.need = ingested,
                            !.status = IF _processor.oid = 0
                                          \/ should_refresh(last_update, now)
                                       THEN "none" ELSE "ok"]
    /\ gp_pc' = IF gp'.status = "ok" THEN "done" ELSE "download"
    /\ UNCHANGED <<now, remote, disk, last_update, _processor, building, sj_pc, sj,
                   ingested, ingest_vars, reply, util_vars>>

\* load_data -> download_file(force=False): the path is returned as it is when
\* _should_download says so, else the URLs are tried; without a file at the
\* path the call raises, here or at the first read
GpDownload ==
    /\ gp_pc = "download"
    /\ \E outcome \in Outcomes :
          /\ disk' = download_file(disk, FALSE, outcome, remote, now).file
          /\ gp' = [gp EXCEPT !.fetch = download_file(disk, FALSE, outcome, remote, now).fetch]
    /\ gp_pc' = IF disk'.exists THEN "load" ELSE "except"
    /\ UNCHANGED <<now, remote, last_update, _processor, building, sj_pc, sj,
                   ingested, ingest_vars, reply, util_vars>>

GpLoaded(l) ==
    IF l.err # "" THEN gp_pc' = "except" /\ UNCHANGED gp
    ELSE /\ gp_pc' = "construct"
         /\ gp' = [gp EXCEPT !.df = l.df, !.ver = disk.ver,
                             !.lacking = missing_cols(l.df) # {}]

\* load_data: the header search, the read under the header found, the renaming
\* and the conversions
GpLoad ==
    /\ gp_pc = "load"
    /\ IF disk.exists THEN GpLoaded(load_data(Releases[disk.sheet]))
       ELSE gp_pc' = "except" /\ UNCHANGED gp
    /\ UNCHANGED <<now, remote, disk, last_update, _processor, building, sj_pc, sj,
                   ingested, ingest_vars, reply, util_vars>>

\* DataProcessor.__init__: self.df = df.copy()
GpConstruct ==
    /\ gp_pc = "construct"
    /\ building' = [oid |-> _processor.oid + 1, stage |-> "raw", ver |-> gp.ver,
                    source_columns |-> gp.df.columns, df |-> gp.df]
    /\ gp_pc' = "clean"
    /\ gp' = [gp EXCEPT !.df = NoFrame]
    /\ UNCHANGED <<now, remote, disk, last_update, _processor, sj_pc, sj, ingested,
                   ingest_vars, reply, util_vars>>

\* DataProcessor.__init__: self._clean_data(), then self._enhance_data(), which
\* raises nothing
GpClean ==
    /\ gp_pc = "clean"
    /\ \E result \in _clean_data(building.df) :
          IF raises(result)
          THEN gp_pc' = "except" /\ building' = NoProcessor
          ELSE gp_pc' = "assign"
               /\ building' = [building EXCEPT !.stage = "complete", !.df = result.df]
    /\ UNCHANGED <<now, remote, disk, last_update, _processor, gp, sj_pc, sj, ingested,
                   ingest_vars, reply, util_vars>>

\* _processor = DataProcessor(df), bound when the constructor has returned;
\* cache.update_timestamp(); return _processor
GpAssign ==
    /\ gp_pc = "assign"
    /\ _processor' = building
    /\ building' = NoProcessor
    /\ last_update' = <<now>>
    /\ gp' = [gp EXCEPT !.reload = "ok", !.status = "ok"]
    /\ gp_pc' = "done"
    /\ UNCHANGED <<now, remote, disk, sj_pc, sj, ingested, ingest_vars, reply, util_vars>>

\* except Exception: HTTP 503 without a processor, the old processor otherwise
GpExcept ==
    /\ gp_pc = "except"
    /\ gp' = [gp EXCEPT !.reload = "failed", !.status = on_reload_error(_processor)]
    /\ gp_pc' = "done"
    /\ UNCHANGED <<now, remote, disk, last_update, _processor, building, sj_pc, sj,
                   ingested, ingest_vars, reply, util_vars>>

\* The route handler computes its answer from the processor it was given
Query ==
    /\ gp_pc = "done"
    /\ gp.status = "ok"
    /\ _processor' = [_processor EXCEPT !.df = after_query(_processor.df)]
    /\ gp_pc' = "idle"
    /\ gp' = NoCall
    /\ UNCHANGED <<now, remote, disk, last_update, building, sj_pc, sj, ingested,
                   ingest_vars, reply, util_vars>>

\* The HTTPException is the request's answer
Unavailable ==
    /\ gp_pc = "done"
    /\ gp.status = "503"
    /\ gp_pc' = "idle"
    /\ gp' = NoCall
    /\ UNCHANGED <<now, remote, disk, last_update, _processor, building, sj_pc, sj,
                   ingested, ingest_vars, reply, util_vars>>

\* update_anp_data: filepath = downloader.download_file(force=True); an
\* exception is logged and ends the job
SjDownload ==
    /\ sj_pc = "idle"
    /\ \E outcome \in Outcomes :
          /\ disk' = download_file(disk, TRUE, outcome, remote, now).file
          /\ sj' = IF outcome = "ok" THEN remote ELSE NoJob
    /\ sj_pc' = IF disk'.exists THEN "refresh" ELSE "idle"
    /\ UNCHANGED <<now, remote, last_update, _processor, building, gp_pc, gp, ingested,
                   ingest_vars, reply, util_vars>>

\* update_anp_data: cache.clear(); cache.update_timestamp()
SjRefresh ==
    /\ sj_pc = "refresh"
    /\ last_update' = <<now>>
    /\ ingested' = IF sj.ver > ingested /\ Ingestible(Releases[sj.sheet])
                   THEN sj.ver ELSE ingested
    /\ sj_pc' = "idle"
    /\ sj' = NoJob
    /\ UNCHANGED <<now, remote, disk, _processor, building, gp_pc, gp, ingest_vars, reply, util_vars>>

\* Time passes.
Tick ==
    /\ \E t \in Days : t > now /\ now' = t
    /\ UNCHANGED <<remote, disk, last_update, _processor, building, gp_pc, gp, sj_pc, sj,
                   ingested, ingest_vars, reply, util_vars>>

\* The ANP publishes a newer file.
Publish ==
    /\ remote.ver < MaxReleases
    /\ \E s \in 1..Len(Releases) : remote' = [ver |-> remote.ver + 1, sheet |-> s]
    /\ UNCHANGED <<now, disk, last_update, _processor, building, gp_pc, gp, sj_pc, sj,
                   ingested, ingest_vars, reply, util_vars>>

Next ==
    \/ GpCall \/ GpDownload \/ GpLoad \/ GpConstruct \/ GpClean \/ GpAssign \/ GpExcept
    \/ Query \/ Unavailable
    \/ SjDownload \/ SjRefresh
    \/ Tick \/ Publish

Spec == ServingInit /\ [][Next]_vars

(***************************************************************************)
(* Properties of the serving layer (Spec)                                  *)
(***************************************************************************)
\* get_processor has returned or raised; gp holds how.
Answered == gp_pc = "done"

\* C1: a get_processor call whose reload fails returns the processor loaded
\* before, unchanged, when there is one, and raises HTTP 503 when there is
\* none; no other call raises.
C1_StaleButAvailable ==
    Answered =>
        /\ (gp.reload = "failed" /\ gp.before.oid # 0) =>
                gp.status = "ok" /\ _processor = gp.before
        /\ gp.status = "503" <=> (gp.reload = "failed" /\ gp.before.oid = 0)

\* A reload failed under a loaded processor, and the call returned that processor.
C1_ServedStale ==
    Answered /\ gp.reload = "failed" /\ gp.before.oid # 0 /\ gp.status = "ok"

\* C2: once a scheduled update has put a newer file in place, a get_processor
\* call made after it returns a processor built from that file or a newer one.
C2_NewestAfterUpdate ==
    (Answered /\ gp.status = "ok") => _processor.ver >= gp.need

\* C3: _processor never refers to a table whose cleaning has not finished, a
\* call returns a complete table, and a published table is never modified:
\* _processor changes only by being bound to another object.
C3_AtomicPublication ==
    /\ [](_processor.oid # 0 => _processor.stage = "complete")
    /\ []((Answered /\ gp.status = "ok") => _processor.stage = "complete")
    /\ [][_processor'.oid = _processor.oid => _processor' = _processor]_vars

\* A constructor is cleaning a table while a processor is published and the
\* scheduler's job is between its download and its cache refresh.
C3_ReloadDuringJob ==
    /\ building.stage = "raw"
    /\ _processor.oid # 0
    /\ sj_pc = "refresh"

Resolves(columns) ==
    \A k \in 1..Len(required_columns) :
        \E j \in 1..Len(columns) : columns[j] = required_columns[k]

\* C10: a file whose header does not give MUNICIPIO, ESTADO, PRODUTO and
\* PRECO_MEDIO_REVENDA makes the reload fail, and _processor is never bound
\* to a processor built from such a file.
C10_RequiredColumnsOrNoTable ==
    /\ _processor.oid # 0 => Resolves(_processor.source_columns)
    /\ (Answered /\ gp.lacking) => (gp.reload = "failed" /\ _processor = gp.before)

\* A reload read a file lacking a required column under a loaded processor,
\* and the call returned the processor loaded before.
C10_LackingFileRejected ==
    Answered /\ gp.lacking /\ gp.status = "ok" /\ gp.before.oid # 0


(***************************************************************************)
(* Aggregation: the queries of routes/today and of DataProcessor           *)
(*                                                                         *)
(* A mean is kept exact, as the fraction num/den of hundredths.            *)
(***************************************************************************)
\* Bound of the model: rows of the sheets the queried tables are built from.
MaxQueryRows == 3

\* schemas.FuelType: the values a route accepts as fuel_type
FuelType == [
    GASOLINA |-> <<"g", "a", "s", "o", "l", "i", "n", "a">>,
    DIESEL |-> <<"d", "i", "e", "s", "e", "l">>,
    DIESEL_S10 |-> <<"d", "i", "e", "s", "e", "l", "_", "s", "1", "0">>,
    GNV |-> <<"g", "n", "v">> ]

FuelTypes == {FuelType.GASOLINA, FuelType.DIESEL, FuelType.DIESEL_S10, FuelType.GNV}

\* schemas.Region: the regions a response model accepts
RegionEnum == {Region.NORTE, Region.NORDESTE, Region.CENTRO_OESTE, Region.SUDESTE, Region.SUL}

\* The characters in the order of their code points, by which str compares.
CodePoints ==
    <<" ", ",", "-", ".">> \o Digits \o UpperLetters \o <<"_">> \o LowerLetters
    \o <<"A'", "A^", "A~", "C,", "E'", "E^", "I'", "O'", "O^", "O~", "U'">>
    \o <<"a'", "a^", "a~", "c,", "e'", "e^", "i'", "o'", "o^", "o~", "u'">>

\* a < b on str
RECURSIVE StrLess(_, _)
StrLess(a, b) ==
    IF b = <<>> THEN FALSE
    ELSE IF a = <<>> THEN TRUE
    ELSE IF Head(a) = Head(b) THEN StrLess(Tail(a), Tail(b))
    ELSE IndexOf(CodePoints, Head(a)) < IndexOf(CodePoints, Head(b))

\* a < b on tuples of str
RECURSIVE KeyLess(_, _)
KeyLess(a, b) ==
    a # <<>> /\ (StrLess(Head(a), Head(b))
                 \/ (Head(a) = Head(b) /\ KeyLess(Tail(a), Tail(b))))

RECURSIVE SumOf(_)
SumOf(ints) == IF ints = <<>> THEN 0 ELSE Head(ints) + SumOf(Tail(ints))

\* int(row['NUMERO_DE_POSTOS_PESQUISADOS'])
PostosOf(row) == row[Column.NUMERO_DE_POSTOS_PESQUISADOS].n \div 100

PrecoOf(row) == row[Column.PRECO_MEDIO_REVENDA].n

\* a mean below another, equal to it
MeanLess(a, b) == a.num * b.den < b.num * a.den
MeanEq(a, b) == a.num * b.den = b.num * a.den

\* df[df[col] == value]
RowsWhere(rows, col, value) ==
    LET Is(row) == row[col].t = "str" /\ row[col].s = value
    IN  SelectSeq(rows, Is)

\* The key of a row under groupby(by)
KeyOf(row, by) == [k \in 1..Len(by) |-> row[by[k]].s]

GroupKeys(rows, by) == { KeyOf(rows[i], by) : i \in 1..Len(rows) }

\* groupby sorts the groups by key: the i-th key
NthKey(keys, i) == CHOOSE k \in keys : Cardinality({ j \in keys : KeyLess(j, k) }) = i - 1

Members(rows, by, key) ==
    LET In(row) == KeyOf(row, by) = key
    IN  SelectSeq(rows, In)

\* One group of groupby(by).agg({'PRECO_MEDIO_REVENDA': 'mean',
\* 'NUMERO_DE_POSTOS_PESQUISADOS': 'sum'})
MeanSumGroup(key, members) ==
    [key |-> key,
     num |-> SumOf([i \in 1..Len(members) |-> PrecoOf(members[i])]),
     den |-> Len(members),
     stations |-> SumOf([i \in 1..Len(members) |-> PostosOf(members[i])])]

\* groupby(by).agg(mean, sum).reset_index(): the groups in the order of their keys
groupby_mean_sum(rows, by) ==
    [i \in 1..Cardinality(GroupKeys(rows, by)) |->
        MeanSumGroup(NthKey(GroupKeys(rows, by), i),
                     Members(rows, by, NthKey(GroupKeys(rows, by), i)))]

\* Series.idxmin(), idxmax(): the first row holding the extreme
idxmin(groups) ==
    CHOOSE i \in 1..Len(groups) :
        /\ \A j \in 1..Len(groups) : ~MeanLess(groups[j], groups[i])
        /\ \A j \in 1..(i - 1) : MeanLess(groups[i], groups[j])

idxmax(groups) ==
    CHOOSE i \in 1..Len(groups) :
        /\ \A j \in 1..Len(groups) : ~MeanLess(groups[i], groups[j])
        /\ \A j \in 1..(i - 1) : MeanLess(groups[j], groups[i])

\* a response: the status code and, under 200, the body as a list of entries
Response(status, body) == [status |-> status, body |-> body]

\* DataProcessor._normalize_region
region_variants == <<
    <<<<"C", "E", "N", "T", "R", "O", "-", "O", "E", "S", "T", "E">>, Region.CENTRO_OESTE>>,
    <<<<"C", "E", "N", "T", "R", "O", " ", "O", "E", "S", "T", "E">>, Region.CENTRO_OESTE>>,
    <<<<"C", "E", "N", "T", "R", "O", " ", " ", "O", "E", "S", "T", "E">>, Region.CENTRO_OESTE>>,
    <<<<"C", "E", "N", "T", "R", "O", "O", "E", "S", "T", "E">>, Region.CENTRO_OESTE>> >>

_normalize_region(region) ==
    IF region = <<>> THEN Region.NAO_IDENTIFICADA
    ELSE DictGet(region_variants, Strip(Upper(region)), Strip(Upper(region)))

\* A response_model whose region is not of schemas.Region fails validation,
\* which the framework answers with 500.
Validated(body) ==
    IF \A i \in 1..Len(body) : body[i].region \in RegionEnum
    THEN Response(200, body)
    ELSE Response(500, <<>>)

(***************************************************************************)
(* GET /best-price (routes/today.get_best_price)                           *)
(***************************************************************************)
MIN_POSTOS_CONFIAVEL == 5
MIN_POSTOS_CONFIAVEL_REDUZIDO == 3
MIN_POSTOS_POR_CIDADE == 10
MIN_POSTOS_POR_CIDADE_REDUZIDO == 5
MIN_POSTOS_HIGH == 10

\* processor.get_latest_week_data(): DataProcessor defines no such method,
\* so the call raises AttributeError
get_latest_week_data(df) == [err |-> "AttributeError", df |-> NoFrame]

\* fuel_df[fuel_df['NUMERO_DE_POSTOS_PESQUISADOS'] >= min_postos]
reliable_rows(fuel_df, min_postos) ==
    LET Enough(row) == PostosOf(row) >= min_postos
    IN  SelectSeq(fuel_df, Enough)

\* the rows kept: at least 5 stations, else at least 3, else all
fuel_df_confiavel(fuel_df) ==
    IF reliable_rows(fuel_df, MIN_POSTOS_CONFIAVEL) # <<>>
    THEN reliable_rows(fuel_df, MIN_POSTOS_CONFIAVEL)
    ELSE IF reliable_rows(fuel_df, MIN_POSTOS_CONFIAVEL_REDUZIDO) # <<>>
         THEN reliable_rows(fuel_df, MIN_POSTOS_CONFIAVEL_REDUZIDO)
         ELSE fuel_df

\* The columns the route groups the rows by.
city_keys == <<Column.MUNICIPIO, Column.ESTADO, Column.REGIAO>>

city_grouped(rows) == groupby_mean_sum(rows, city_keys)

\* city_grouped[city_grouped['NUMERO_DE_POSTOS_PESQUISADOS'] >= min_postos]
reliable_cities(groups, min_postos) ==
    LET Enough(g) == g.stations >= min_postos
    IN  SelectSeq(groups, Enough)

\* the groups kept: at least 10 stations in all, else at least 5, else all
city_grouped_confiavel(groups) ==
    IF reliable_cities(groups, MIN_POSTOS_POR_CIDADE) # <<>>
    THEN reliable_cities(groups, MIN_POSTOS_POR_CIDADE)
    ELSE IF reliable_cities(groups, MIN_POSTOS_POR_CIDADE_REDUZIDO) # <<>>
         THEN reliable_cities(groups, MIN_POSTOS_POR_CIDADE_REDUZIDO)
         ELSE groups

\* The groups the best price is chosen among.
BestPriceGroups(fuel_df) == city_grouped_confiavel(city_grouped(fuel_df_confiavel(fuel_df)))

\* result = {...} of the best row
best_price_result(best, fuel_type) ==
    [price |-> [num |-> best.num, den |-> best.den],
     city |-> best.key[1],
     state |-> best.key[2],
     region |-> best.key[3],
     fuel_type |-> fuel_type,
     stations_count |-> best.stations,
     reliability |-> IF best.stations >= MIN_POSTOS_HIGH THEN "high" ELSE "medium"]

\* response_model=BestPriceResponse: the model has no field reliability, so
\* the response leaves it out
BestPriceResponse(result) ==
    Validated(<<[price |-> result.price, city |-> result.city, state |-> result.state,
                 region |-> result.region, fuel_type |-> result.fuel_type,
                 stations_count |-> result.stations_count]>>)

BestOfGroups(groups, fuel_type) ==
    IF groups = <<>> THEN Response(404, <<>>)
    ELSE BestPriceResponse(best_price_result(groups[idxmin(groups)], fuel_type))

BestOfFuel(fuel_df, fuel_type) ==
    IF fuel_df = <<>> THEN Response(404, <<>>)
    ELSE BestOfGroups(BestPriceGroups(fuel_df), fuel_type)

BestOfLatest(latest, fuel_type) ==
    IF latest.err # "" THEN Response(500, <<>>)
    ELSE IF latest.df.rows = <<>> THEN Response(404, <<>>)
    ELSE BestOfFuel(RowsWhere(latest.df.rows, Column.PRODUTO_CONSOLIDADO, Upper(fuel_type)),
                    fuel_type)

\* The response of GET /best-price on the processor's table.
get_best_price(df, fuel_type) == BestOfLatest(get_latest_week_data(df), fuel_type)

(***************************************************************************)
(* GET /ranking (routes/today.get_ranking, DataProcessor.get_ranking)      *)
(***************************************************************************)
\* The columns get_ranking groups the rows by.
ranking_keys == <<Column.MUNICIPIO, Column.ESTADO_SIGLA, Column.REGIAO>>

\* grouped.sort_values('PRECO_MEDIO_REVENDA'): the default sort is not
\* stable, so groups of equal mean may come out in any order
sort_by_price(groups) ==
    { [i \in 1..Len(groups) |-> groups[q[i]]] : q \in
        { p \in Orderings(Len(groups)) :
            \A i \in 1..(Len(groups) - 1) : ~MeanLess(groups[p[i + 1]], groups[p[i]]) } }

\* grouped.head(limit)
head(seq, limit) == SubSeq(seq, 1, Min(limit, Len(seq)))

\* the list the loop over ranked.iterrows() appends to
RankingOf(ranked) ==
    [i \in 1..Len(ranked) |->
        [rank |-> i,
         city |-> ranked[i].key[1],
         state |-> ranked[i].key[2],
         region |-> _normalize_region(ranked[i].key[3]),
         price |-> [num |-> ranked[i].num, den |-> ranked[i].den],
         stations |-> ranked[i].stations]]

RankingsOfFuel(fuel_df, limit) ==
    IF fuel_df = <<>> THEN { <<>> }
    ELSE { RankingOf(head(sorted, limit)) :
             sorted \in sort_by_price(groupby_mean_sum(fuel_df, ranking_keys)) }

\* DataProcessor.get_ranking: the lists it can return
processor_get_ranking(df, fuel_type, limit) ==
    RankingsOfFuel(RowsWhere(df.rows, Column.PRODUTO_CONSOLIDADO, Upper(fuel_type)), limit)

RankingResponse(ranking) ==
    IF ranking = <<>> THEN Response(404, <<>>) ELSE Validated(ranking)

\* The responses GET /ranking can give on the processor's table.
get_ranking(df, fuel_type, limit) ==
    { RankingResponse(ranking) : ranking \in processor_get_ranking(df, fuel_type, limit) }

(***************************************************************************)
(* GET /regions (routes/today.get_regions_data,                            *)
(* DataProcessor.get_region_stats)                                         *)
(***************************************************************************)
\* df['REGIAO'].unique(): the regions in the order they first appear
RECURSIVE unique(_)
unique(values) ==
    IF values = <<>> THEN <<>>
    ELSE LET rest == unique(SubSeq(values, 1, Len(values) - 1))
             last == values[Len(values)]
         IN  IF \E i \in 1..Len(rest) : rest[i] = last THEN rest ELSE Append(rest, last)

RegionsOf(rows) == unique([i \in 1..Len(rows) |-> rows[i][Column.REGIAO].s])

\* region_normalized
region_normalized(region) ==
    Replace(Replace(Strip(Upper(region)), <<"C", "E", "N", "T", "R", "O", "-", "O", "E", "S", "T", "E">>, Region.CENTRO_OESTE),
            <<"C", "E", "N", "T", "R", "O", " ", "O", "E", "S", "T", "E">>, Region.CENTRO_OESTE)

Smallest(ints) == CHOOSE x \in Range(ints) : \A y \in Range(ints) : x <= y
Largest(ints) == CHOOSE x \in Range(ints) : \A y \in Range(ints) : x >= y

\* the entry region_stats.append adds for a region and a fuel
RegionStat(region, fuel_type, fuel_df) ==
    [region |-> region_normalized(region),
     fuel_type |-> fuel_type,
     avg_price |-> [num |-> SumOf([i \in 1..Len(fuel_df) |-> PrecoOf(fuel_df[i])]),
                    den |-> Len(fuel_df)],
     min_price |-> Smallest([i \in 1..Len(fuel_df) |-> PrecoOf(fuel_df[i])]),
     max_price |-> Largest([i \in 1..Len(fuel_df) |-> PrecoOf(fuel_df[i])]),
     city_count |-> Cardinality({ fuel_df[i][Column.MUNICIPIO].s : i \in 1..Len(fuel_df) }),
     stations_count |-> SumOf([i \in 1..Len(fuel_df) |-> PostosOf(fuel_df[i])])]

StatsOfRegions(regions, fuel_df, fuel_type) ==
    [i \in 1..Len(regions) |->
        RegionStat(regions[i], fuel_type, RowsWhere(fuel_df, Column.REGIAO, regions[i]))]

\* get_region_stats() filtered to the fuel: one entry for each region that
\* has rows of it
fuel_stats(df, fuel_type) ==
    StatsOfRegions(RegionsOf(RowsWhere(df.rows, Column.PRODUTO_CONSOLIDADO, Upper(fuel_type))),
                   RowsWhere(df.rows, Column.PRODUTO_CONSOLIDADO, Upper(fuel_type)),
                   fuel_type)

min_price(stats) == stats[CHOOSE i \in 1..Len(stats) :
                              \A j \in 1..Len(stats) : ~MeanLess(stats[j].avg_price, stats[i].avg_price)].avg_price
max_price(stats) == stats[CHOOSE i \in 1..Len(stats) :
                              \A j \in 1..Len(stats) : ~MeanLess(stats[i].avg_price, stats[j].avg_price)].avg_price

\* ((max - avg) / (max - min)) * 100: the scale turned over
normalized_inverted(avg, lo, hi) ==
    [num |-> 100 * (hi.num * avg.den - avg.num * hi.den) * lo.den,
     den |-> avg.den * (hi.num * lo.den - lo.num * hi.den)]

\* ((avg - min) / (max - min)) * 100, as a fraction
normalized(avg, lo, hi) ==
    [num |-> 100 * (avg.num * lo.den - lo.num * avg.den) * hi.den,
     den |-> avg.den * (hi.num * lo.den - lo.num * hi.den)]

WithColor(stats, lo, hi) ==
    [i \in 1..Len(stats) |->
        [region |-> stats[i].region, fuel_type |-> stats[i].fuel_type,
         avg_price |-> stats[i].avg_price, min_price |-> stats[i].min_price,
         max_price |-> stats[i].max_price, city_count |-> stats[i].city_count,
         stations_count |-> stats[i].stations_count,
         color_index |-> normalized(stats[i].avg_price, lo, hi)]]

\* response_model=List[RegionStats]: region of schemas.Region, 0 <= color_index <= 100
RegionStatsResponse(body) ==
    IF \A i \in 1..Len(body) :
           /\ body[i].color_index.num >= 0
           /\ body[i].color_index.num <= 100 * body[i].color_index.den
    THEN Validated(body)
    ELSE Response(500, <<>>)

\* the division raises ZeroDivisionError when max_price = min_price, and
\* `except Exception` answers 500
ColoredOrError(stats, lo, hi) ==
    IF MeanEq(lo, hi) THEN Response(500, <<>>)
    ELSE RegionStatsResponse(WithColor(stats, lo, hi))

RegionsOfStats(stats) ==
    IF stats = <<>> THEN Response(404, <<>>)
    ELSE ColoredOrError(stats, min_price(stats), max_price(stats))

\* The response of GET /regions on the processor's table.
get_regions_data(df, fuel_type) == RegionsOfStats(fuel_stats(df, fuel_type))

(***************************************************************************)
(* GET /summary (routes/today.get_today_summary)                           *)
(***************************************************************************)
MIN_POSTOS == 10

\* the rows kept: at least 10 stations, else all
summary_rows(fuel_df) ==
    IF reliable_rows(fuel_df, MIN_POSTOS) # <<>> THEN reliable_rows(fuel_df, MIN_POSTOS)
    ELSE fuel_df

\* One entry of city_stats: the mean weighted by the stations
WeightedGroup(key, members) ==
    [key |-> key,
     num |-> SumOf([i \in 1..Len(members) |-> PrecoOf(members[i]) * PostosOf(members[i])]),
     den |-> SumOf([i \in 1..Len(members) |-> PostosOf(members[i])]),
     stations |-> SumOf([i \in 1..Len(members) |-> PostosOf(members[i])])]

\* city_stats: the groups with total_postos > 0, in the order of their keys
city_stats(rows) ==
    LET Surveyed(g) == g.stations > 0
    IN  SelectSeq([i \in 1..Cardinality(GroupKeys(rows, city_keys)) |->
                      WeightedGroup(NthKey(GroupKeys(rows, city_keys), i),
                                    Members(rows, city_keys, NthKey(GroupKeys(rows, city_keys), i)))],
                  Surveyed)

\* best_price and worst_price of the response
PriceEntry(g) ==
    [price |-> [num |-> g.num, den |-> g.den], city |-> g.key[1], state |-> g.key[2],
     region |-> g.key[3], stations_count |-> g.stations]

\* SummaryResponse(best_price=...) validates best_price as a BestPriceResponse;
\* worst_price is a plain dict
SummaryResponse(best, worst) ==
    IF best.region \in RegionEnum THEN Response(200, <<best, worst>>)
    ELSE Response(500, <<>>)

SummaryOfStats(stats) ==
    IF stats = <<>> THEN Response(404, <<>>)
    ELSE SummaryResponse(PriceEntry(stats[idxmin(stats)]), PriceEntry(stats[idxmax(stats)]))

SummaryOfFuel(fuel_df) ==
    IF fuel_df = <<>> THEN Response(404, <<>>)
    ELSE SummaryOfStats(city_stats(summary_rows(fuel_df)))

SummaryOfLatest(latest, fuel_type) ==
    IF latest.err # "" THEN Response(500, <<>>)
    ELSE IF latest.df.rows = <<>> THEN Response(404, <<>>)
    ELSE SummaryOfFuel(RowsWhere(latest.df.rows, Column.PRODUTO_CONSOLIDADO, Upper(fuel_type)))

\* The response of GET /summary on the processor's table.
get_today_summary(df, fuel_type) == SummaryOfLatest(get_latest_week_data(df), fuel_type)

(***************************************************************************)
(* The queried tables and the requests                                     *)
(***************************************************************************)
\* Bound of the model: the largest limit requested.
MaxLimit == 2

\* limit: int = Query(10, ge=1, le=50)
Limits == 1..MaxLimit

\* The rows of the sheets behind the queried tables: cities of several
\* regions with few and many stations, equal and different prices, one city
\* twice and under two spellings of its state, a state of no region, other fuels.
QueryRowPool == {
    BaseRow,
    Row(Txt(<<"S", "a~", "o", " ", "P", "a", "u", "l", "o">>), Txt(<<" ", "S", "a~", "o", " ", "P", "a", "u", "l", "o", " ">>), Txt(<<"g", "a", "s", "o", "l", "i", "n", "a", " ", "c", "o", "m", "u", "m">>), Num(2000), Num(480)),
    Row(Txt(<<"S", "P">>), Txt(<<"S", "A", "O", " ", "P", "A", "U", "L", "O">>), Txt(<<"G", "A", "S", "O", "L", "I", "N", "A", " ", "A", "D", "I", "T", "I", "V", "A", "D", "A">>), Num(400), Num(560)),
    Row(Txt(<<"S", "P">>), Txt(<<"C", "A", "M", "P", "I", "N", "A", "S">>), Txt(<<"G", "A", "S", "O", "L", "I", "N", "A">>), Num(300), Num(480)),
    Row(Txt(<<"R", "J">>), Txt(<<"R", "I", "O", " ", "D", "E", " ", "J", "A", "N", "E", "I", "R", "O">>), Txt(<<"G", "A", "S", "O", "L", "I", "N", "A">>), Num(600), Num(480)),
    Row(Txt(<<"G", "O">>), Txt(<<"G", "O", "I", "A", "N", "I", "A">>), Txt(<<"G", "A", "S", "O", "L", "I", "N", "A">>), Num(200), Num(450)),
    Row(Txt(<<"R", "S">>), Txt(<<"P", "O", "R", "T", "O", " ", "A", "L", "E", "G", "R", "E">>), Txt(<<"G", "A", "S", "O", "L", "I", "N", "A">>), Num(2000), Num(500)),
    Row(Txt(<<"X", "X">>), Txt(<<"B", "R", "A", "S", "I", "L", "I", "A">>), Txt(<<"G", "A", "S", "O", "L", "I", "N", "A">>), Num(2000), Num(470)),
    Row(Txt(<<"S", "P">>), Txt(<<"S", "A", "O", " ", "P", "A", "U", "L", "O">>), Txt(<<"D", "I", "E", "S", "E", "L">>), Num(2000), Num(600)),
    Row(Txt(<<"S", "P">>), Txt(<<"S", "A", "N", "T", "O", "S">>), Txt(<<"E", "T", "A", "N", "O", "L">>), Num(2000), Num(399)) }

QueryRowSeqs == UNION { [1..n -> QueryRowPool] : n \in 0..MaxQueryRows }

\* The monthly file of three surveys of one city: twelve rows above the header
\* MES, PRODUTO, REGIAO, ESTADO, MUNICIPIO, NUMERO DE POSTOS PESQUISADOS,
\* PRECO MEDIO REVENDA, then GASOLINA in SAO PAULO (written with its tilde) / SP at 5.10, 5.30 and
\* 4.95, 20 stations each.
ScenarioRows == <<
    Row(Txt(<<"S", "P">>), Txt(<<"S", "A~", "O", " ", "P", "A", "U", "L", "O">>), Txt(<<"G", "A", "S", "O", "L", "I", "N", "A">>), Num(2000), Num(510)),
    Row(Txt(<<"S", "P">>), Txt(<<"S", "A~", "O", " ", "P", "A", "U", "L", "O">>), Txt(<<"G", "A", "S", "O", "L", "I", "N", "A">>), Num(2000), Num(530)),
    Row(Txt(<<"S", "P">>), Txt(<<"S", "A~", "O", " ", "P", "A", "U", "L", "O">>), Txt(<<"G", "A", "S", "O", "L", "I", "N", "A">>), Num(2000), Num(495)) >>

ScenarioSheet == MakeSheet(12, MonthlyHeader, ScenarioRows)

QuerySheets == { MakeSheet(2, WeeklyHeader, rows) : rows \in QueryRowSeqs } \cup {ScenarioSheet}

QueryInit ==
    /\ sheet \in QuerySheets
    /\ loaded = NotLoaded
    /\ processed = NotProcessed
    /\ ingest_pc = "load"
    /\ ServingIdle
    /\ reply = NoReply
    /\ UtilIdle

\* get_processor() has given the processor whose table is processed.df
Serving ==
    /\ ingest_pc = "done"
    /\ processed.err = ""
    /\ reply = NoReply

Served(route, fuel_type, limit, response) ==
    [route |-> route, fuel_type |-> fuel_type, limit |-> limit,
     status |-> response.status, body |-> response.body]

BestPrice ==
    /\ Serving
    /\ \E fuel_type \in FuelTypes :
           reply' = Served("best-price", fuel_type, 0, get_best_price(processed.df, fuel_type))
    /\ UNCHANGED <<ingest_vars, serving_vars, util_vars>>

Ranking ==
    /\ Serving
    /\ \E fuel_type \in FuelTypes, limit \in Limits :
           \E response \in get_ranking(processed.df, fuel_type, limit) :
               reply' = Served("ranking", fuel_type, limit, response)
    /\ UNCHANGED <<ingest_vars, serving_vars, util_vars>>

Regions ==
    /\ Serving
    /\ \E fuel_type \in FuelTypes :
           reply' = Served("regions", fuel_type, 0, get_regions_data(processed.df, fuel_type))
    /\ UNCHANGED <<ingest_vars, serving_vars, util_vars>>

Summary ==
    /\ Serving
    /\ \E fuel_type \in FuelTypes :
           reply' = Served("summary", fuel_type, 0, get_today_summary(processed.df, fuel_type))
    /\ UNCHANGED <<ingest_vars, serving_vars, util_vars>>

QueryNext == LoadData \/ CleanData \/ BestPrice \/ Ranking \/ Regions \/ Summary

SpecQuery == QueryInit /\ [][QueryNext]_vars

(***************************************************************************)
(* Claims on the aggregation                                               *)
(***************************************************************************)
\* The rows of a product class in the processor's table.
FuelRows(fuel_type) == RowsWhere(processed.df.rows, Column.PRODUTO_CONSOLIDADO, Upper(fuel_type))

\* The table is in service.
InService == ingest_pc = "done" /\ processed.err = ""

\* The groups of the reference procedure: by city and state code.
reference_keys == <<Column.MUNICIPIO, Column.ESTADO_SIGLA>>

ReferenceGroups(fuel_df) ==
    city_grouped_confiavel(groupby_mean_sum(fuel_df_confiavel(fuel_df), reference_keys))

Lowest(groups, g) == \A j \in 1..Len(groups) : ~MeanLess(groups[j], g)
Highest(groups, g) == \A j \in 1..Len(groups) : ~MeanLess(g, groups[j])

ReliabilityOf(g) == IF g.stations >= 10 THEN "high" ELSE "medium"

\* The entry names the group: its city and averaged price.
Names(entry, g) ==
    /\ entry.city = g.key[1]
    /\ MeanEq(entry.price, g)

IsReferenceBest(entry, groups) ==
    \E i \in 1..Len(groups) :
        /\ Lowest(groups, groups[i])
        /\ Names(entry, groups[i])
        /\ entry.state = groups[i].key[2]
        /\ entry.stations_count = groups[i].stations
        /\ "reliability" \in DOMAIN entry
        /\ entry.reliability = ReliabilityOf(groups[i])

\* C11: on every table and product class the best-price response is the
\* result of the reference procedure (rows of at least 5 stations, else 3,
\* else all; grouped by city and state code with stations summed and prices
\* averaged; groups of at least 10 stations, else 5, else all; the group of
\* minimum average, tagged high from 10 stations and medium below).
C11_BestPriceIsReference ==
    (reply.route = "best-price" /\ FuelRows(reply.fuel_type) # <<>>) =>
        /\ reply.status = 200
        /\ IsReferenceBest(reply.body[1], ReferenceGroups(FuelRows(reply.fuel_type)))

\* C12: the best-price response is populated whenever the table holds a row
\* of the requested class, is the no-data outcome only when it holds none,
\* and is never an internal error.
C12_PopulatedWhenDataExists ==
    reply.route = "best-price" =>
        /\ reply.status # 500
        /\ reply.status = 404 <=> FuelRows(reply.fuel_type) = <<>>
        /\ reply.status = 200 => reply.body # <<>>

\* The groups the pipeline of the best price keeps at thresholds t1 and t2.
GroupsAt(fuel_df, t1, t2) == reliable_cities(city_grouped(reliable_rows(fuel_df, t1)), t2)

NotDearer(strict, relaxed) ==
    strict # <<>> =>
        /\ relaxed # <<>>
        /\ ~MeanLess(strict[idxmin(strict)], relaxed[idxmin(relaxed)])

Cheaper(strict, relaxed) ==
    /\ strict # <<>>
    /\ relaxed # <<>>
    /\ MeanLess(relaxed[idxmin(relaxed)], strict[idxmin(strict)])

RankedAmong(entry, groups) ==
    \E i \in 1..Len(groups) : Names(entry, groups[i]) /\ entry.stations = groups[i].stations

FirstIsBest(entry, groups) ==
    /\ groups # <<>>
    /\ Names(entry, groups[idxmin(groups)])
    /\ entry.stations = groups[idxmin(groups)].stations

\* C14: the ranking is taken over the gated groups of the best price: its
\* first entry is the city, average and station total of the best price, and
\* every entry is a group the thresholds of the best price keep.
C14_RankingOverGatedGroups ==
    (reply.route = "ranking" /\ reply.status = 200) =>
        /\ FirstIsBest(reply.body[1], BestPriceGroups(FuelRows(reply.fuel_type)))
        /\ \A i \in 1..Len(reply.body) :
               RankedAmong(reply.body[i], BestPriceGroups(FuelRows(reply.fuel_type)))

\* sort_values on the mean, keeping ties in their order (kind='stable')
stable_sort_by_price(groups) ==
    { [i \in 1..Len(groups) |-> groups[q[i]]] : q \in
        { p \in Orderings(Len(groups)) :
            \A i \in 1..(Len(groups) - 1) :
                \/ MeanLess(groups[p[i]], groups[p[i + 1]])
                \/ (MeanEq(groups[p[i]], groups[p[i + 1]]) /\ p[i] < p[i + 1]) } }

\* C15: the ranking is the stable ascending sort of the groups cut to limit:
\* min(limit, groups) entries ranked 1..n, prices not decreasing, groups of
\* equal price in their group order.
C15_StableSortTruncated ==
    (reply.route = "ranking" /\ reply.status = 200) =>
        reply.body \in { RankingOf(head(sorted, reply.limit)) : sorted \in
            stable_sort_by_price(groupby_mean_sum(FuelRows(reply.fuel_type), ranking_keys)) }

IsBestAndWorst(best, worst, groups) ==
    /\ groups # <<>>
    /\ \E i \in 1..Len(groups) : Lowest(groups, groups[i]) /\ Names(best, groups[i])
    /\ \E i \in 1..Len(groups) : Highest(groups, groups[i]) /\ Names(worst, groups[i])

\* C16: the summary reports as worst price the largest unweighted city
\* average of the groups the thresholds of the best price keep, and beside
\* it the best price of the same groups.
C16_WorstOverSameGroups ==
    (reply.route = "summary" /\ FuelRows(reply.fuel_type) # <<>>) =>
        /\ reply.status = 200
        /\ IsBestAndWorst(reply.body[1], reply.body[2], BestPriceGroups(FuelRows(reply.fuel_type)))

\* the fractions a and b are equal
SameFraction(a, b) == a.num * b.den = b.num * a.den

InRange(color) == color.den > 0 /\ color.num >= 0 /\ color.num <= 100 * color.den

ColorsFollow(body, lo, hi) ==
    \A i \in 1..Len(body) :
        /\ InRange(body[i].color_index)
        /\ SameFraction(body[i].color_index,
                        [num |-> (body[i].avg_price.num * lo.den - lo.num * body[i].avg_price.den)
                                     * hi.den * 100,
                         den |-> body[i].avg_price.den * (hi.num * lo.den - lo.num * hi.den)])

\* C17: every region entry returned has a color_index in [0,100], equal to
\* (avg - min region avg) / (max region avg - min region avg) * 100.
C17_ColorIndexInRange ==
    (reply.route = "regions" /\ reply.status = 200) =>
        ColorsFollow(reply.body, min_price(reply.body), max_price(reply.body))

\* regions returned with a color strictly between the ends of the scale
C17_ThreeShades ==
    /\ reply.route = "regions"
    /\ reply.status = 200
    /\ \E i \in 1..Len(reply.body) :
           /\ reply.body[i].color_index.num > 0
           /\ reply.body[i].color_index.num < 100 * reply.body[i].color_index.den

AllEqual(stats) == \A i, j \in 1..Len(stats) : MeanEq(stats[i].avg_price, stats[j].avg_price)

\* C18: when the regions holding the product class all have the same average
\* (a single region too), the statistics are returned and every region has
\* color_index 0.
C18_DegenerateColorIsZero ==
    (/\ reply.route = "regions"
     /\ fuel_stats(processed.df, reply.fuel_type) # <<>>
     /\ AllEqual(fuel_stats(processed.df, reply.fuel_type))) =>
        /\ reply.status = 200
        /\ \A i \in 1..Len(reply.body) : reply.body[i].color_index.num = 0

(***************************************************************************)
(* What an ingestion reports of the rows it dropped                        *)
(***************************************************************************)
\* _clean_data logs final_count/initial_count and their difference:
\* initial_count is len(self.df) as DataProcessor receives it
clean_report(df_in, df_out) ==
    [rows_in |-> Len(df_in.rows),
     rows_out |-> Len(df_out.rows),
     removed |-> Len(df_in.rows) - Len(df_out.rows)]

CountRows(rows, Test(_)) == Len(SelectSeq(rows, Test))

\* get_summary_stats()['data_quality'], counted on original_df
data_quality(original_df) ==
    LET missing(row) == Price(row).t = "nan"
        zero(row) == Price(row).t = "num" /\ Price(row).n = 0
        negative(row) == Price(row).t = "num" /\ Price(row).n < 0
    IN  [missing_prices |-> CountRows(original_df.rows, missing),
         zero_prices |-> CountRows(original_df.rows, zero),
         negative_prices |-> CountRows(original_df.rows, negative)]

(***************************************************************************)
(* Claims on the numeric parser and on the drop-report                     *)
(***************************************************************************)
CommaRow == Row(Txt(<<"S", "P">>), Txt(<<"S", "A", "O", " ", "P", "A", "U", "L", "O">>), Txt(<<"G", "A", "S", "O", "L", "I", "N", "A">>), Num(2000), Txt(<<"5", ",", "1", "0">>))
DotRow == Row(Txt(<<"S", "P">>), Txt(<<"S", "A", "O", " ", "P", "A", "U", "L", "O">>), Txt(<<"G", "A", "S", "O", "L", "I", "N", "A">>), Num(2000), Txt(<<"5", ".", "1", "0">>))

HoldsPrice(rows, n) ==
    \E i \in 1..Len(rows) : Price(rows[i]).t = "num" /\ Price(rows[i]).n = n

\* C19: a row whose mean price is written "5,10" is ingested, with the price
\* 5.10 of the row written "5.10".
C19_CommaDecimalAccepted ==
    ingest_pc = "done" =>
        /\ sheet = MakeSheet(2, WeeklyHeader, <<DotRow>>) =>
               processed.err = "" /\ HoldsPrice(processed.df.rows, 510)
        /\ sheet = MakeSheet(2, WeeklyHeader, <<CommaRow>>) =>
               processed.err = "" /\ HoldsPrice(processed.df.rows, 510)

\* The data rows read: the rows of the sheet under its header.
DataRowsRead == Len(sheet) - (loaded.header_row + 1)

ReasonsTotal(reasons) == reasons.missing_prices + reasons.zero_prices + reasons.negative_prices

Accounts(report, reasons) ==
    /\ report.rows_in = DataRowsRead
    /\ report.rows_out = Len(processed.df.rows)
    /\ ReasonsTotal(reasons) = report.rows_in - report.rows_out

\* C20: every ingestion that produces a table reports rows_in, the data rows
\* read, rows_out, the observations of the table, and reasons whose counts
\* add up to rows_in - rows_out.
C20_DropReportAccounts ==
    Produced => Accounts(clean_report(loaded.df, processed.df), data_quality(loaded.df))
(***************************************************************************)
(* utils/regions.py and utils/validators.py: the other state and region    *)
(* lookups                                                                 *)
(***************************************************************************)
STATE_TO_REGION == <<
    <<<<"A", "C">>, <<"N", "O", "R", "T", "E">>>>, <<<<"A", "P">>, <<"N", "O", "R", "T", "E">>>>, <<<<"A", "M">>, <<"N", "O", "R", "T", "E">>>>, <<<<"P", "A">>, <<"N", "O", "R", "T", "E">>>>,
    <<<<"R", "O">>, <<"N", "O", "R", "T", "E">>>>, <<<<"R", "R">>, <<"N", "O", "R", "T", "E">>>>, <<<<"T", "O">>, <<"N", "O", "R", "T", "E">>>>,
    <<<<"A", "L">>, <<"N", "O", "R", "D", "E", "S", "T", "E">>>>, <<<<"B", "A">>, <<"N", "O", "R", "D", "E", "S", "T", "E">>>>, <<<<"C", "E">>, <<"N", "O", "R", "D", "E", "S", "T", "E">>>>,
    <<<<"M", "A">>, <<"N", "O", "R", "D", "E", "S", "T", "E">>>>, <<<<"P", "B">>, <<"N", "O", "R", "D", "E", "S", "T", "E">>>>, <<<<"P", "E">>, <<"N", "O", "R", "D", "E", "S", "T", "E">>>>,
    <<<<"P", "I">>, <<"N", "O", "R", "D", "E", "S", "T", "E">>>>, <<<<"R", "N">>, <<"N", "O", "R", "D", "E", "S", "T", "E">>>>, <<<<"S", "E">>, <<"N", "O", "R", "D", "E", "S", "T", "E">>>>,
    <<<<"D", "F">>, <<"C", "E", "N", "T", "R", "O", "-", "O", "E", "S", "T", "E">>>>, <<<<"G", "O">>, <<"C", "E", "N", "T", "R", "O", "-", "O", "E", "S", "T", "E">>>>, <<<<"M", "T">>, <<"C", "E", "N", "T", "R", "O", "-", "O", "E", "S", "T", "E">>>>,
    <<<<"M", "S">>, <<"C", "E", "N", "T", "R", "O", "-", "O", "E", "S", "T", "E">>>>,
    <<<<"E", "S">>, <<"S", "U", "D", "E", "S", "T", "E">>>>, <<<<"M", "G">>, <<"S", "U", "D", "E", "S", "T", "E">>>>, <<<<"R", "J">>, <<"S", "U", "D", "E", "S", "T", "E">>>>, <<<<"S", "P">>, <<"S", "U", "D", "E", "S", "T", "E">>>>,
    <<<<"P", "R">>, <<"S", "U", "L">>>>, <<<<"R", "S">>, <<"S", "U", "L">>>>, <<<<"S", "C">>, <<"S", "U", "L">>>> >>

STATE_NAMES_TO_SIGLAS == <<
    <<<<"A", "C", "R", "E">>, <<"A", "C">>>>, <<<<"A", "L", "A", "G", "O", "A", "S">>, <<"A", "L">>>>, <<<<"A", "M", "A", "P", "A">>, <<"A", "P">>>>, <<<<"A", "M", "A", "Z", "O", "N", "A", "S">>, <<"A", "M">>>>,
    <<<<"B", "A", "H", "I", "A">>, <<"B", "A">>>>, <<<<"C", "E", "A", "R", "A">>, <<"C", "E">>>>, <<<<"D", "I", "S", "T", "R", "I", "T", "O", " ", "F", "E", "D", "E", "R", "A", "L">>, <<"D", "F">>>>,
    <<<<"E", "S", "P", "I", "R", "I", "T", "O", " ", "S", "A", "N", "T", "O">>, <<"E", "S">>>>, <<<<"G", "O", "I", "A", "S">>, <<"G", "O">>>>, <<<<"M", "A", "R", "A", "N", "H", "A", "O">>, <<"M", "A">>>>,
    <<<<"M", "A", "T", "O", " ", "G", "R", "O", "S", "S", "O">>, <<"M", "T">>>>, <<<<"M", "A", "T", "O", " ", "G", "R", "O", "S", "S", "O", " ", "D", "O", " ", "S", "U", "L">>, <<"M", "S">>>>, <<<<"M", "I", "N", "A", "S", " ", "G", "E", "R", "A", "I", "S">>, <<"M", "G">>>>,
    <<<<"P", "A", "R", "A">>, <<"P", "A">>>>, <<<<"P", "A", "R", "A", "I", "B", "A">>, <<"P", "B">>>>, <<<<"P", "A", "R", "A", "N", "A">>, <<"P", "R">>>>, <<<<"P", "E", "R", "N", "A", "M", "B", "U", "C", "O">>, <<"P", "E">>>>,
    <<<<"P", "I", "A", "U", "I">>, <<"P", "I">>>>, <<<<"R", "I", "O", " ", "D", "E", " ", "J", "A", "N", "E", "I", "R", "O">>, <<"R", "J">>>>, <<<<"R", "I", "O", " ", "G", "R", "A", "N", "D", "E", " ", "D", "O", " ", "N", "O", "R", "T", "E">>, <<"R", "N">>>>,
    <<<<"R", "I", "O", " ", "G", "R", "A", "N", "D", "E", " ", "D", "O", " ", "S", "U", "L">>, <<"R", "S">>>>, <<<<"R", "O", "N", "D", "O", "N", "I", "A">>, <<"R", "O">>>>, <<<<"R", "O", "R", "A", "I", "M", "A">>, <<"R", "R">>>>,
    <<<<"S", "A", "N", "T", "A", " ", "C", "A", "T", "A", "R", "I", "N", "A">>, <<"S", "C">>>>, <<<<"S", "A", "O", " ", "P", "A", "U", "L", "O">>, <<"S", "P">>>>, <<<<"S", "E", "R", "G", "I", "P", "E">>, <<"S", "E">>>>,
    <<<<"T", "O", "C", "A", "N", "T", "I", "N", "S">>, <<"T", "O">>>> >>

\* key in dict
HasKey(dict, key) == \E i \in 1..Len(dict) : dict[i][1] = key

Keys(dict) == { dict[i][1] : i \in 1..Len(dict) }

\* regions.get_region_by_state
get_region_by_state(sigla) == DictGet(STATE_TO_REGION, Upper(Strip(sigla)), <<"D", "E", "S", "C", "O", "N", "H", "E", "C", "I", "D", "A">>)

\* The names of STATE_NAMES_TO_SIGLAS, in the order of the dict, that hold the
\* input or are held by it.
SimilarNames(state_input) ==
    { i \in 1..Len(STATE_NAMES_TO_SIGLAS) :
        \/ Contains(STATE_NAMES_TO_SIGLAS[i][1], state_input)
        \/ Contains(state_input, STATE_NAMES_TO_SIGLAS[i][1]) }

\* normalize_state_name once the input is stripped and upper-cased
NormalizedState(s) ==
    IF HasKey(STATE_TO_REGION, s) THEN s
    ELSE IF HasKey(STATE_NAMES_TO_SIGLAS, s) THEN DictGet(STATE_NAMES_TO_SIGLAS, s, s)
    ELSE IF SimilarNames(s) # {} THEN STATE_NAMES_TO_SIGLAS[Least(SimilarNames(s))][2]
    ELSE s

\* regions.normalize_state_name
normalize_state_name(state_input) ==
    IF state_input = <<>> THEN <<>> ELSE NormalizedState(Upper(Strip(state_input)))

regioes_validas == {<<"N", "O", "R", "T", "E">>, <<"N", "O", "R", "D", "E", "S", "T", "E">>, <<"C", "E", "N", "T", "R", "O", "-", "O", "E", "S", "T", "E">>, <<"S", "U", "D", "E", "S", "T", "E">>, <<"S", "U", "L">>}

\* DataValidator.validate_region: whether the region is accepted
validate_region(region) == region # <<>> /\ Upper(Strip(region)) \in regioes_validas

(***************************************************************************)
(* Properties of the state and region lookups                              *)
(***************************************************************************)
\* The 27 state codes.
StateCodes == Keys(region_mapping)

\* The state of a row of the table, as estado_para_sigla receives it.
StateOf(row) == AsStr(row[Column.ESTADO])

\* The lookup gives the code the table lists for the name, and no match
\* (code <<>>) for a name the table does not list.
ExactMatch(name, code) ==
    IF HasKey(mapeamento, name) THEN code = DictGet(mapeamento, name, <<>>)
    ELSE code = <<>>

\* C21: the state-name-to-code lookups (estado_para_sigla in _clean_data and
\* regions.normalize_state_name) match the table of full state names exactly:
\* a listed name gives its code and any other input, one that is a state code
\* already aside, gives no match: not the input itself, not the code of a
\* similar name.
C21_ExactMatchOrNull ==
    Produced =>
        \A i \in 1..Len(processed.df.rows) :
            StateOf(processed.df.rows[i]) \notin StateCodes =>
                /\ ExactMatch(StateOf(processed.df.rows[i]),
                              AsStr(processed.df.rows[i][Column.ESTADO_SIGLA]))
                /\ ExactMatch(StateOf(processed.df.rows[i]),
                              normalize_state_name(StateOf(processed.df.rows[i])))

\* A state no lookup of _clean_data resolves to a state code.
Unresolved(state) == estado_para_sigla(Upper(Strip(state))) \notin StateCodes

\* A row load_data returned that _clean_data keeps but for its state: its
\* product is one of valid_products.
ValidButForState(row) ==
    /\ row[Column.ESTADO].t = "str" /\ row[Column.MUNICIPIO].t = "str"
    /\ row[Column.PRODUTO].t = "str"
    /\ Unresolved(row[Column.ESTADO].s)
    /\ Normalized(UpperStrip(row[Column.PRODUTO])).s \in valid_products

\* The row of the table that came of the row read: its state, city, product
\* and price, with the region given.
KeptWithRegion(row, kept, region) ==
    /\ kept[Column.ESTADO] = UpperStrip(row[Column.ESTADO])
    /\ kept[Column.MUNICIPIO] = Normalized(UpperStrip(row[Column.MUNICIPIO]))
    /\ kept[Column.PRODUTO] = Normalized(UpperStrip(row[Column.PRODUTO]))
    /\ Price(kept) = Price(row)
    /\ kept[Column.REGIAO] = Txt(region)

OneRegion(sigla, region) ==
    /\ region = get_region_from_state_sigla(sigla)
    /\ region = get_region_by_state(sigla)
    /\ validate_region(region)
    /\ region \in RegionEnum

\* C23: a state code has one region: the REGIAO _clean_data gives a row of
\* the code is the label regions.get_region_by_state gives the code, the
\* region validator accepts it, and it is one of NORTE, NORDESTE,
\* CENTRO_OESTE, SUDESTE and SUL of the Region response type.
C23_OneRegionPerState ==
    Produced =>
        \A i \in 1..Len(processed.df.rows) :
            AsStr(processed.df.rows[i][Column.ESTADO_SIGLA]) \in StateCodes =>
                OneRegion(AsStr(processed.df.rows[i][Column.ESTADO_SIGLA]),
                          AsStr(processed.df.rows[i][Column.REGIAO]))
(***************************************************************************)
(* The monthly file end to end                                             *)
(***************************************************************************)
\* The table of the monthly file has been queried for the best price of GASOLINA.
ScenarioAnswered ==
    /\ sheet = ScenarioSheet
    /\ reply.route = "best-price"
    /\ reply.fuel_type = FuelType.GASOLINA

\* C24: for the monthly file (twelve rows above a header naming MES, PRODUTO,
\* REGIAO, ESTADO, MUNICIPIO and PRECO MEDIO REVENDA; GASOLINA in SAO PAULO /
\* SP at 5.10, 5.30 and 4.95, 20 stations each) the best price of GASOLINA is
\* city SAO PAULO, the mean of the three prices (15.35 / 3, about 5.1167),
\* reliability high.
C24_ScenarioBestPrice ==
    ScenarioAnswered =>
        /\ reply.status = 200
        /\ reply.body[1].city = <<"S", "A", "O", " ", "P", "A", "U", "L", "O">>
        /\ MeanEq(reply.body[1].price, [num |-> 510 + 530 + 495, den |-> 3])
        /\ "reliability" \in DOMAIN reply.body[1]
        /\ reply.body[1].reliability = "high"
(***************************************************************************)
(* Properties of the header search                                         *)
(***************************************************************************)
\* The anchor labels of load_data a row names: DATA INICIAL, MUNICIPIO,
\* PRODUTO, ESTADO.
AnchorsNamed(row) ==
    AnchorMatches(row) + (IF HasDataInicial(row) THEN 1 ELSE 0)

\* load_data has found a header row (by DATA INICIAL or by the key columns).
HeaderFound == loaded # NotLoaded /\ loaded.found \in {"DATA INICIAL", "anchors"}

\* C25: the header row load_data finds is one of the scanned rows, names at
\* least 2 distinct anchor labels, and no scanned row names more of them: a
\* row of a single anchor is never the header, a later row of more matches
\* is taken rather than an earlier row of fewer.
C25_HeaderHasMostAnchors ==
    HeaderFound =>
        /\ loaded.header_row < Min(HeaderScanRows, Len(sheet))
        /\ AnchorsNamed(sheet[loaded.header_row + 1]) >= MinAnchorMatches
        /\ \A i \in 1..Min(HeaderScanRows, Len(sheet)) :
              AnchorsNamed(sheet[i]) <= AnchorsNamed(sheet[loaded.header_row + 1])
(***************************************************************************)
(* DataProcessor._estimate_coordinates                                     *)
(***************************************************************************)
MaxCalls == 2

\* The dict estado_para_sigla of _estimate_coordinates: the names of
\* _clean_data's table but for 'BAIA' written with its accent.
coords_estado_para_sigla ==
    LET Listed(entry) == entry[1] # <<"B", "A", "I'", "A">> IN SelectSeq(mapeamento, Listed)

\* capital_coords, in ten-thousandths of a degree: <<latitude, longitude>>
capital_coords == <<
    <<<<"S", "P">>, <<-235505, -466333>> >>, <<<<"R", "J">>, <<-229068, -431729>> >>,
    <<<<"M", "G">>, <<-199167, -439345>> >>, <<<<"R", "S">>, <<-300331, -512300>> >>,
    <<<<"P", "R">>, <<-254284, -492733>> >>, <<<<"S", "C">>, <<-275954, -485480>> >>,
    <<<<"D", "F">>, <<-157942, -478822>> >>, <<<<"G", "O">>, <<-166869, -492648>> >>,
    <<<<"M", "T">>, <<-156010, -560974>> >>, <<<<"M", "S">>, <<-204697, -546201>> >>,
    <<<<"B", "A">>, <<-129714, -385014>> >>, <<<<"P", "E">>, <<-80476, -348770>> >>,
    <<<<"C", "E">>, <<-37172, -385433>> >>, <<<<"R", "N">>, <<-57945, -352110>> >>,
    <<<<"P", "B">>, <<-71195, -348450>> >>, <<<<"A", "L">>, <<-96658, -357350>> >>,
    <<<<"S", "E">>, <<-109472, -370731>> >>, <<<<"M", "A">>, <<-25387, -442830>> >>,
    <<<<"P", "I">>, <<-50892, -428016>> >>, <<<<"P", "A">>, <<-14558, -484902>> >>,
    <<<<"A", "M">>, <<-31190, -600217>> >>, <<<<"A", "C">>, <<-99747, -678100>> >>,
    <<<<"R", "O">>, <<-87612, -639039>> >>, <<<<"R", "R">>, <<28195, -606714>> >>,
    <<<<"A", "P">>, <<349, -510664>> >>, <<<<"T", "O">>, <<-101844, -483336>> >> >>

\* state_sigla: the code of a state written in full, else the state as given
state_sigla(state) ==
    DictGet(coords_estado_para_sigla, Strip(Upper(state)), Strip(Upper(state)))

\* The 32 bits of the digest are kept in two parts, city_hash = high * 1024 + low,
\* so that no value passes the integers of the checker.
Hash(high, low) == [high |-> high, low |-> low]

\* (city_hash % 1000 - 500) / 10000
lat_variation(city_hash) == (((city_hash.high % 1000) * 1024 + city_hash.low) % 1000) - 500

\* ((city_hash >> 10) % 1000 - 500) / 10000
lon_variation(city_hash) == (city_hash.high % 1000) - 500

Coordinates(base, city_hash) ==
    [none |-> FALSE,
     latitude |-> base[1] + lat_variation(city_hash),
     longitude |-> base[2] + lon_variation(city_hash)]

\* {'latitude': None, 'longitude': None}
NoCoordinates == [none |-> TRUE, latitude |-> 0, longitude |-> 0]

\* _estimate_coordinates(city, state), city_hash being
\* int(hashlib.md5(city.encode()).hexdigest()[:8], 16)
_estimate_coordinates(city_hash, state) ==
    IF HasKey(capital_coords, state_sigla(state))
    THEN Coordinates(DictGet(capital_coords, state_sigla(state), <<>>), city_hash)
    ELSE NoCoordinates

\* The states asked about: the 27 codes, the names in full with and without
\* accents, a code in lower case between spaces, and a code of no state.
StateInputs ==
    StateCodes \cup Keys(mapeamento) \cup {<<" ", "s", "p", " ">>, <<"X", "X">>}

CityInputs == {<<"S", "A", "O", " ", "P", "A", "U", "L", "O">>, <<"V", "I", "T", "O", "R", "I", "A">>, <<"S", "A~", "O", " ", "J", "O", "S", "E'">>}

\* Values of the 32 bits taken of the digest: 0, 499, 500, 999 and 1000, the
\* ends of the second variation, and 2^32 - 1.
HashValues == {Hash(0, 0), Hash(0, 499), Hash(0, 500), Hash(0, 999), Hash(0, 1000),
               Hash(499, 512), Hash(999, 1023), Hash(4194303, 1023)}

CoordsInit ==
    /\ \E city \in CityInputs, state \in StateInputs, city_hash \in HashValues :
          call = [fn |-> "_estimate_coordinates",
                  args |-> [city |-> city, state |-> state, md5 |-> city_hash],
                  out |-> <<>>]
    /\ IngestIdle
    /\ ServingIdle
    /\ CacheIdle

\* coords = self._estimate_coordinates(city, state); hashlib.md5 gives a city
\* the same digest at every call
EstimateCoordinates ==
    /\ call.fn = "_estimate_coordinates"
    /\ Len(call.out) < MaxCalls
    /\ call' = [call EXCEPT !.out = Append(@, _estimate_coordinates(call.args.md5,
                                                                     call.args.state))]
    /\ UNCHANGED <<ingest_vars, serving_vars, reply, cache_vars>>

SpecCoords == CoordsInit /\ [][EstimateCoordinates]_vars

\* The state is one of the 27, given as its code or as its full name.
IsStateOrName(state) == state \in StateCodes \/ HasKey(STATE_NAMES_TO_SIGLAS, state)

CodeOf(state) == IF state \in StateCodes THEN state ELSE DictGet(STATE_NAMES_TO_SIGLAS, state, <<>>)

Distance(a, b) == IF a < b THEN b - a ELSE a - b

\* Within 0.05 degrees of the base coordinate on both axes.
Near(coords, base) ==
    /\ Distance(coords.latitude, base[1]) <= 500
    /\ Distance(coords.longitude, base[2]) <= 500

\* C26: for each of the 27 states, given as code or as full name, and every
\* city, _estimate_coordinates returns coordinates, not None, within 0.05
\* degrees of the state's base coordinate on each axis, and the same
\* coordinates at every call.
C26_CoordinatesNearBase ==
    (call.fn = "_estimate_coordinates" /\ IsStateOrName(call.args.state)) =>
        \A i \in 1..Len(call.out) :
            /\ ~call.out[i].none
            /\ HasKey(capital_coords, CodeOf(call.args.state))
            /\ Near(call.out[i], DictGet(capital_coords, CodeOf(call.args.state), <<>>))
            /\ call.out[i] = call.out[1]
(***************************************************************************)
(* GET /multi-stop (routes/simulator.multi_stop_simulation)                *)
(***************************************************************************)
MaxStops == 2

\* Litres are kept exact, as a count of (1 / (100 * consumption)) litre:
\* tank_capacity * (initial_level / 100) is tank_capacity * initial_level *
\* consumption of them, distance / consumption is 100 * distance.
InUnits(litres, consumption) == 100 * consumption * litres

\* round(x, 1) of x = num / den, in tenths: the nearest, the even one of two
\* equally near
round1(num, den) ==
    LET q == (20 * num + den) \div (2 * den)
    IN  IF (20 * num + den) % (2 * den) = 0 /\ q % 2 = 1 THEN q - 1 ELSE q

\* fuel_needed = distance / consumption
fuel_needed(distance) == 100 * distance

\* tank_capacity * (min_reserve / 100)
reserve(q) == q.tank_capacity * q.min_reserve * q.consumption

\* current_liters after the segment: what is left, or a full tank less the
\* segment when what is left does not cover the segment and the reserve
after_segment(current_liters, distance, q) ==
    IF current_liters >= fuel_needed(distance) + reserve(q)
    THEN current_liters - fuel_needed(distance)
    ELSE InUnits(q.tank_capacity, q.consumption) - fuel_needed(distance)

\* route.append({...})
Segment(i, distance, current_liters, left, q) ==
    [segment |-> i,
     distance |-> distance,
     remaining_liters |-> round1(left, 100 * q.consumption),
     remaining_percent |-> round1(100 * left, InUnits(q.tank_capacity, q.consumption)),
     status |-> IF current_liters >= fuel_needed(distance) + reserve(q)
                THEN "ok" ELSE "refueled"]

\* for i, distance in enumerate(distances, 1)
RECURSIVE Simulate(_, _, _, _)
Simulate(distances, i, current_liters, q) ==
    IF i > Len(distances) THEN <<>>
    ELSE <<Segment(i, distances[i], current_liters,
                   after_segment(current_liters, distances[i], q), q)>>
         \o Simulate(distances, i + 1, after_segment(current_liters, distances[i], q), q)

\* multi_stop_simulation on distances that parse as numbers: the route
multi_stop_simulation(q) ==
    [status |-> 200,
     route |-> Simulate(q.stops, 1, q.tank_capacity * q.initial_level * q.consumption, q)]

\* Queries within the bounds of the route's parameters (tank_capacity > 0,
\* 0 <= initial_level <= 100, consumption > 0, 5 <= min_reserve <= 30), the
\* distances positive: segments a tank covers and segments it does not.
SegmentKm == {50, 300, 700}

StopLists == UNION { [1..n -> SegmentKm] : n \in 1..MaxStops }

MultiStopQueries ==
    [stops : StopLists, tank_capacity : {40, 50}, initial_level : {0, 50, 100},
     consumption : {8, 12}, min_reserve : {5, 15, 30}]

SimulatorInit ==
    /\ \E q \in MultiStopQueries :
          call = [fn |-> "multi_stop_simulation", args |-> q, out |-> <<>>]
    /\ IngestIdle
    /\ ServingIdle
    /\ CacheIdle

MultiStop ==
    /\ call.fn = "multi_stop_simulation"
    /\ call.out = <<>>
    /\ call' = [call EXCEPT !.out = <<multi_stop_simulation(call.args)>>]
    /\ UNCHANGED <<ingest_vars, serving_vars, reply, cache_vars>>

SpecSimulator == SimulatorInit /\ [][MultiStop]_vars

\* C30: in the response of multi_stop_simulation the remaining fuel recorded
\* after every segment is at least 0 and at most tank_capacity, whatever the
\* positive distances and the admissible parameters.
C30_RemainingWithinTank ==
    (call.fn = "multi_stop_simulation" /\ call.out # <<>>) =>
        \A i \in 1..Len(call.out[1].route) :
            /\ call.out[1].route[i].remaining_liters >= 0
            /\ call.out[1].route[i].remaining_liters <= 10 * call.args.tank_capacity
(***************************************************************************)
(* CacheManager: get, set and clear over the memory of one instance and    *)
(* the files of cache/, which outlive it                                   *)
(***************************************************************************)
MaxCacheTime == 1

\* _generate_cache_key: the md5 digest of prefix and arguments, one key for
\* each pair
_generate_cache_key(prefix, args) == [prefix |-> prefix, args |-> args]

\* The calls cached: rankings of two fuels, and the regions.
CacheKeys == { _generate_cache_key("ranking", "gasolina"),
               _generate_cache_key("ranking", "diesel"),
               _generate_cache_key("regions", "gasolina") }

Prefixes == { k.prefix : k \in CacheKeys }

\* cache_item of set(prefix, data) at time t, ttl being self.cache_ttl
cache_item(key, t) == [key |-> key, prefix |-> key.prefix, expires_at |-> t + 1]

Holds(store, key) == \E item \in store : item.key = key

ItemOf(store, key) == CHOOSE item \in store : item.key = key

Without_(store, key) == { item \in store : item.key # key }

\* datetime.now() < item['expires_at']
Fresh(item, t) == t < item.expires_at

\* memory_cache after get: an expired item is deleted, a fresh item of the
\* disk is loaded
MemoryAfterGet(memory, files, key, t) ==
    IF Holds(memory, key) /\ Fresh(ItemOf(memory, key), t) THEN memory
    ELSE IF Holds(files, key) /\ Fresh(ItemOf(files, key), t)
         THEN Without_(memory, key) \cup {ItemOf(files, key)}
         ELSE Without_(memory, key)

\* cache/ after get: an expired file is unlinked, unless memory answered
FilesAfterGet(memory, files, key, t) ==
    IF Holds(memory, key) /\ Fresh(ItemOf(memory, key), t) THEN files
    ELSE IF Holds(files, key) /\ ~Fresh(ItemOf(files, key), t) THEN Without_(files, key)
         ELSE files

\* What get returns: "data" for item['data'], "None"
GetResult(memory, files, key, t) ==
    IF Holds(memory, key) /\ Fresh(ItemOf(memory, key), t) THEN "data"
    ELSE IF Holds(files, key) /\ Fresh(ItemOf(files, key), t) THEN "data"
         ELSE "None"

\* keys_to_remove of clear(prefix): the keys of memory_cache under the prefix
keys_to_remove(memory, prefix) == { item.key : item \in { m \in memory : m.prefix = prefix } }

Removed(store, keys) == { item \in store : item.key \notin keys }

CacheInit ==
    /\ call = NoUtility
    /\ CacheIdle
    /\ IngestIdle
    /\ ServingIdle

CacheCall(fn, args, out) == [fn |-> fn, args |-> args, out |-> out]

\* cache.set(prefix, data, None, *args)
CacheSet ==
    \E key \in CacheKeys :
        /\ memory_cache' = Without_(memory_cache, key) \cup {cache_item(key, cache_clock)}
        /\ cache_dir' = Without_(cache_dir, key) \cup {cache_item(key, cache_clock)}
        /\ cleared' = cleared \ {key}
        /\ call' = CacheCall("set", key, <<>>)
        /\ UNCHANGED <<cache_clock, ingest_vars, serving_vars, reply>>

\* cache.get(prefix, *args)
CacheGet ==
    \E key \in CacheKeys :
        /\ memory_cache' = MemoryAfterGet(memory_cache, cache_dir, key, cache_clock)
        /\ cache_dir' = FilesAfterGet(memory_cache, cache_dir, key, cache_clock)
        /\ call' = CacheCall("get", [key |-> key, after_clear |-> key \in cleared],
                             <<GetResult(memory_cache, cache_dir, key, cache_clock)>>)
        /\ UNCHANGED <<cache_clock, cleared, ingest_vars, serving_vars, reply>>

\* cache.clear(prefix)
CacheClearPrefix ==
    \E prefix \in Prefixes :
        /\ memory_cache' = Removed(memory_cache, keys_to_remove(memory_cache, prefix))
        /\ cache_dir' = Removed(cache_dir, keys_to_remove(memory_cache, prefix))
        /\ cleared' = cleared \cup { k \in CacheKeys : k.prefix = prefix }
        /\ call' = CacheCall("clear", prefix, <<>>)
        /\ UNCHANGED <<cache_clock, ingest_vars, serving_vars, reply>>

\* cache.clear(): memory_cache.clear() and every *.pkl unlinked
CacheClearAll ==
    /\ memory_cache' = {}
    /\ cache_dir' = {}
    /\ cleared' = CacheKeys
    /\ call' = CacheCall("clear", "None", <<>>)
    /\ UNCHANGED <<cache_clock, ingest_vars, serving_vars, reply>>

\* The process starts again: CacheManager() with an empty memory_cache over
\* the files the earlier instance left
CacheRestart ==
    /\ memory_cache' = {}
    /\ call' = CacheCall("restart", <<>>, <<>>)
    /\ UNCHANGED <<cache_dir, cache_clock, cleared, ingest_vars, serving_vars, reply>>

\* Time passes.
CacheTick ==
    /\ cache_clock < MaxCacheTime
    /\ cache_clock' = cache_clock + 1
    /\ UNCHANGED <<call, memory_cache, cache_dir, cleared, ingest_vars, serving_vars, reply>>

CacheNext ==
    CacheSet \/ CacheGet \/ CacheClearPrefix \/ CacheClearAll \/ CacheRestart \/ CacheTick

SpecCache == CacheInit /\ [][CacheNext]_vars

\* A get of a key cleared and not set since returns None.
ClearedIsGone == (call.fn = "get" /\ call.args.after_clear) => call.out = <<"None">>

\* A clear(prefix) leaves the items of the other prefixes where they are.
OthersRemain ==
    (call'.fn = "clear" /\ call'.args # "None") =>
        \A key \in CacheKeys :
            key.prefix # call'.args =>
                /\ Holds(memory_cache, key) => Holds(memory_cache', key)
                /\ Holds(cache_dir, key) => Holds(cache_dir', key)

\* C29: after clear(prefix), get returns None for every key stored under the
\* prefix until the key is set again, whether its item was in memory or only
\* in a file an earlier instance wrote; the items of other prefixes remain.
C29_ClearedUntilSet == []ClearedIsGone /\ [][OthersRemain]_vars

\* ---------------------------------------------------------------------------
\* download_file as get_processor and the scheduler call it
\* ---------------------------------------------------------------------------

\* The step on which get_processor calls download_file(force=False).
DownloadCalled == gp_pc = "download" /\ gp_pc' # "download"

\* The local file is there and younger than ANP_UPDATE_INTERVAL_DAYS.
LocalFileFresh == disk.exists /\ now - disk.date < ANP_UPDATE_INTERVAL_DAYS

\* C27: download_file(force=False) returns the local file without a network
\* request exactly when that file exists and is younger than
\* ANP_UPDATE_INTERVAL_DAYS, attempts a download when the file is missing or
\* older, and never returns the path of a file that does not exist.
C27_DownloadsOnlyWhenNeeded ==
    [][DownloadCalled =>
          /\ ~gp'.fetch.requested <=> LocalFileFresh
          /\ ~gp'.fetch.raised => disk'.exists]_vars

\* The step on which a download_file(force=False) tried the URLs and none gave
\* a workbook.
DownloadFailed == DownloadCalled /\ gp'.fetch.requested /\ gp'.fetch.outcome # "ok"

\* The step on which the scheduler's download_file(force=True) changed the
\* file and gave no workbook: only the two downloads write the file, and
\* scheduled_update_job keeps a job only after a workbook.
ScheduledDownloadFailed == disk' # disk /\ gp_pc' = gp_pc /\ sj' = NoJob

\* C28: when every candidate URL fails, a local file that existed before the
\* call is still there with its previous content and is what download_file
\* returns; download_file raises only when no local file existed before.
C28_FailedDownloadKeepsFile ==
    [][/\ DownloadFailed =>
             /\ disk.exists => disk' = disk /\ ~gp'.fetch.raised
             /\ gp'.fetch.raised => ~disk.exists
       /\ ScheduledDownloadFailed => ~disk.exists]_vars
====
